---- MODULE Spec2Model ----
(***************************************************************************)
(* Campaign management page (AppPage) and Google SMTP settings tab         *)
(* (GoogleTab) of the email marketing front end, together with the remote  *)
(* store they read and write.  Every UI event handler is one action; a     *)
(* handler's remote calls may each fail.                                   *)
(***************************************************************************)
EXTENDS Integers, Sequences, FiniteSets, TLC

----------------------------------------------------------------------------
(* Strings that the code inspects character by character (addresses, app   *)
(* passwords, subject lines, the rate field) are sequences of characters,  *)
(* one string per character.                                               *)

G1 == <<"a", "@", "g", "m", "a", "i", "l", ".", "c", "o", "m">>
G2 == <<"b", "@", "g", "m", "a", "i", "l", ".", "c", "o", "m">>
G3 == <<"c", "@", "g", "m", "a", "i", "l", ".", "c", "o", "m">>
A1 == <<"s", "@", "x", ".", "c", "o">>
BadEmail == <<"a", " ", "@", "g", "m", "a", "i", "l", ".", "c", "o", "m">>
GoodPassword == <<"a", "b", "c", "d", "e", "f", "g", "h", "i", "j", "k", "l", "m", "n", "0", "1">>
ShortPassword == <<"a", "b", "c">>

\* Inputs typed into the Gmail address and app password fields.
EmailInputs == {G1, BadEmail}
PasswordInputs == {GoodPassword, ShortPassword}

\* The characters \s matches and trim() strips: tab, line feed, vertical tab, form
\* feed, carriage return, space, and the Unicode spaces and line separators, each
\* of these written as the name of its code point.
Whitespace ==
    {"\t", "\n", "U+000B", "\f", "\r", " ", "U+00A0", "U+1680",
     "U+2000", "U+2001", "U+2002", "U+2003", "U+2004", "U+2005", "U+2006", "U+2007",
     "U+2008", "U+2009", "U+200A", "U+2028", "U+2029", "U+202F", "U+205F", "U+3000",
     "U+FEFF"}
\* [a-zA-Z0-9]
AlphaNumeric ==
    {"a", "b", "c", "d", "e", "f", "g", "h", "i", "j", "k", "l", "m",
     "n", "o", "p", "q", "r", "s", "t", "u", "v", "w", "x", "y", "z",
     "A", "B", "C", "D", "E", "F", "G", "H", "I", "J", "K", "L", "M",
     "N", "O", "P", "Q", "R", "S", "T", "U", "V", "W", "X", "Y", "Z",
     "0", "1", "2", "3", "4", "5", "6", "7", "8", "9"}
GmailSuffix == <<"@", "g", "m", "a", "i", "l", ".", "c", "o", "m">>

\* Number of handler invocations that read the clock (new Date()).
MaxClock == 2
\* The same bound for the runs that follow one campaign through several saves.
MaxClockLong == 4
\* The same bound for the runs with two saves of one new draft.
MaxClockDouble == 3

\* The fixed city list.
cities ==
    <<"New York", "Los Angeles", "Chicago", "Houston", "Phoenix",
      "Philadelphia", "San Antonio", "San Diego", "Dallas", "San Jose">>

\* Options of the city, days-till-close, name and subject-line inputs that are tried.
CityInputs == {cities[2]}
DaysInputs == {"7"}
NameInputs == {"Promo"}
SubjectInputs ==
    {<<"H", "i">>, <<" ", "H", "i">>, <<" ">>, <<"\f", "H", "i", "\r", "\n">>,
     <<"U+00A0", "\r">>}
\* What is typed into the rate field of a sender email.
RateInputs == {<<"0">>, <<"2", "0", "0", "0">>, <<>>, <<"a", "b", "c">>}

\* The Template Store (TemplatesContext): two html templates and one docx.
templates ==
    <<[id |-> "h1", format |-> "html"],
      [id |-> "h2", format |-> "html"],
      [id |-> "d1", format |-> "docx"]>>

\* Identifiers the remote store hands out to inserted campaign rows, in order.
IdNames == <<"c1", "c2", "c3", "c4", "c5", "c6">>
EmptyId == ""
NoUser == ""
TheUser == "u1"

\* currentCampaign === null
Null == [null |-> TRUE]

Range(s) == {s[i] : i \in DOMAIN s}

\* A JavaScript number as the draft holds it in sendingRate: an integer, or NaN.
Number(n) == [nan |-> FALSE, int |-> n]
NaN == [nan |-> TRUE, int |-> 0]

VARIABLES
    user,               \* supabase.auth.getUser(): TheUser or NoUser
    dbCampaigns,        \* remote table campaigns: set of rows
    dbTemplates,        \* remote table campaign_templates: rows in insertion order
    dbEmails,           \* remote table campaign_emails: rows in insertion order
    dbGoogle,           \* remote table google_smtp_emails: rows in insertion order
    nextId,             \* index in IdNames of the next generated campaign id
    clock,              \* the wall clock
    horizon,            \* the clock value at which a run stops reading the clock
    maxPending,         \* the number of handlers a run lets wait at an await at once
    campaigns,          \* AppPage state: the campaign list
    currentCampaign,    \* AppPage state: the draft, or Null
    selectedTemplateId, \* AppPage state
    isLoading,          \* AppPage state
    sesEmails,          \* EmailContext
    googleEmails,       \* EmailContext
    newEmail,           \* GoogleTab state: the content of the address input
    newAppPassword,     \* GoogleTab state: the content of the password input
    emailError,         \* GoogleTab state
    passwordError,      \* GoogleTab state
    gIsLoading,         \* GoogleTab state (its isLoading)
    lastAlert,          \* the alert() of the handler that returned last, "" if none
    lastCalls,          \* the remote calls that handler issued, in order
    inflight            \* the handler invocations suspended at an await

dbVars == <<dbCampaigns, dbTemplates, dbEmails, nextId>>
pageVars == <<campaigns, currentCampaign, selectedTemplateId, isLoading>>
formVars == <<newEmail, newAppPassword, emailError, passwordError>>
tabVars == <<formVars, gIsLoading>>
bounds == <<horizon, maxPending>>
credVars == <<sesEmails, googleEmails, dbGoogle>>
vars ==
    <<user, dbCampaigns, dbTemplates, dbEmails, dbGoogle, nextId, clock, horizon,
      maxPending, campaigns, currentCampaign, selectedTemplateId, isLoading,
      sesEmails, googleEmails, newEmail, newAppPassword, emailError, passwordError,
      gIsLoading,
      lastAlert, lastCalls, inflight>>

----------------------------------------------------------------------------
(* Pure functions of the two components.                                   *)

HasBody(ts) == \E i \in DOMAIN ts : ts[i].type = "body"

\* Mutant of validateCampaign: the city is checked before the sender emails.
validateCampaignCityFirst(campaign) ==
    IF campaign.city = "" THEN
        [valid |-> FALSE, reason |-> "A target city must be selected"]
    ELSE IF Len(campaign.emails) = 0 THEN
        [valid |-> FALSE, reason |-> "At least one sender email is required"]
    ELSE IF Len(campaign.subjectLines) = 0 THEN
        [valid |-> FALSE, reason |-> "At least one subject line is required"]
    ELSE IF ~HasBody(campaign.templates) THEN
        [valid |-> FALSE, reason |-> "A body template is required"]
    ELSE [valid |-> TRUE, reason |-> ""]

validateCampaign(campaign) ==
    IF Len(campaign.emails) = 0 THEN
        [valid |-> FALSE, reason |-> "At least one sender email is required"]
    ELSE IF campaign.city = "" THEN
        [valid |-> FALSE, reason |-> "A target city must be selected"]
    ELSE IF Len(campaign.subjectLines) = 0 THEN
        [valid |-> FALSE, reason |-> "At least one subject line is required"]
    ELSE IF ~HasBody(campaign.templates) THEN
        [valid |-> FALSE, reason |-> "A body template is required"]
    ELSE [valid |-> TRUE, reason |-> ""]

\* The pattern without its anchor at the start: only the character before
\* "@gmail.com" is looked at.
validateEmailUnanchored(email) ==
    LET n == Len(email) - Len(GmailSuffix) IN
    /\ n >= 1
    /\ email[n] \notin Whitespace \cup {"@"}
    /\ SubSeq(email, n + 1, Len(email)) = GmailSuffix

\* /^[^\s@]+@gmail\.com$/
validateEmail(email) ==
    LET n == Len(email) - Len(GmailSuffix) IN
    /\ n >= 1
    /\ \A i \in 1..n : email[i] \notin Whitespace \cup {"@"}
    /\ SubSeq(email, n + 1, Len(email)) = GmailSuffix

\* Only the length of the password is checked.
validateAppPasswordLengthOnly(password) == Len(password) = 16

\* password.length === 16 && /^[a-zA-Z0-9]+$/.test(password)
validateAppPassword(password) ==
    /\ Len(password) = 16
    /\ \A i \in DOMAIN password : password[i] \in AlphaNumeric

\* availableEmails: SES entries first, then Google entries.
availableEmails(ses, google) ==
    [i \in DOMAIN ses |-> [address |-> ses[i].address, smtpProvider |-> "amazon"]]
    \o [i \in DOMAIN google |-> [address |-> google[i].address, smtpProvider |-> "gmail"]]

\* The reconciliation effect: keep the sender emails whose address is available.
Reconcile(cs, ses, google) ==
    LET allEmailAddresses == {e.address : e \in Range(availableEmails(ses, google))} IN
    [i \in DOMAIN cs |->
        [cs[i] EXCEPT !.emails =
            SelectSeq(cs[i].emails, LAMBDA email : email.address \in allEmailAddresses)]]

RECURSIVE OrderDesc(_)
\* .order('updated_at', { ascending: false }) of a set of rows.
OrderDesc(rows) ==
    IF rows = {} THEN <<>>
    ELSE LET top == CHOOSE r \in rows : \A q \in rows : q.updated_at <= r.updated_at
         IN <<top>> \o OrderDesc(rows \ {top})

TemplateById(id) == templates[CHOOSE i \in DOMAIN templates : templates[i].id = id]

\* The rows fetchCampaigns selects for a user, transformed to Campaign objects.
transformedCampaigns(rows, ctRows, ceRows, uid) ==
    LET campaignsData == OrderDesc({r \in rows : r.user_id = uid})
        Cts(id) == SelectSeq(ctRows, LAMBDA ct : ct.campaign_id = id)
        Ces(id) == SelectSeq(ceRows, LAMBDA ce : ce.campaign_id = id)
    IN [i \in DOMAIN campaignsData |->
          LET campaign == campaignsData[i] IN
          [id |-> campaign.id,
           name |-> campaign.name,
           isActive |-> campaign.is_active,
           city |-> campaign.city,
           subjectLines |-> campaign.subject_lines,
           daysTillClose |-> IF campaign.days_till_close = "" THEN "NA"
                             ELSE campaign.days_till_close,
           templates |-> [k \in DOMAIN Cts(campaign.id) |->
                            [template |-> TemplateById(Cts(campaign.id)[k].template_id),
                             type |-> Cts(campaign.id)[k].template_type]],
           emails |-> [k \in DOMAIN Ces(campaign.id) |->
                            [address |-> Ces(campaign.id)[k].email_address,
                             smtpProvider |-> Ces(campaign.id)[k].provider,
                             sendingRate |-> Number(Ces(campaign.id)[k].sending_rate)]],
           lastModified |-> campaign.updated_at]]

RECURSIVE TrimStart(_)
TrimStart(s) == IF s # <<>> /\ Head(s) \in Whitespace THEN TrimStart(Tail(s)) ELSE s

RECURSIVE TrimEnd(_)
TrimEnd(s) ==
    IF s # <<>> /\ s[Len(s)] \in Whitespace THEN TrimEnd(SubSeq(s, 1, Len(s) - 1)) ELSE s

\* String.prototype.trim
Trim(s) == TrimEnd(TrimStart(s))

\* { ...currentCampaign, ...updates, lastModified: new Date().toISOString() }
UpdatedCampaign(campaign, updates, now) ==
    [f \in DOMAIN campaign |->
        IF f = "lastModified" THEN now
        ELSE IF f \in DOMAIN updates THEN updates[f]
        ELSE campaign[f]]

\* A draft built with no city preselected.
newCampaignNoCity(now) ==
    [id |-> EmptyId,
     name |-> "New Campaign",
     isActive |-> FALSE,
     city |-> "",
     subjectLines |-> <<>>,
     daysTillClose |-> "NA",
     templates |-> <<>>,
     emails |-> <<>>,
     lastModified |-> now]

\* The draft handleCreateCampaign builds.
newCampaign(now) ==
    [id |-> EmptyId,
     name |-> "New Campaign",
     isActive |-> FALSE,
     city |-> cities[1],
     subjectLines |-> <<>>,
     daysTillClose |-> "NA",
     templates |-> <<>>,
     emails |-> <<>>,
     lastModified |-> now]

\* email.sendingRate || 1440: NaN and 0 are falsy.
RateOrDefault(rate) == IF rate.nan \/ rate.int = 0 THEN 1440 ELSE rate.int

Digits == <<"0", "1", "2", "3", "4", "5", "6", "7", "8", "9">>
DigitValue(c) == (CHOOSE i \in DOMAIN Digits : Digits[i] = c) - 1

RECURSIVE DigitRun(_)
\* The longest run of decimal digits a string starts with.
DigitRun(s) ==
    IF s # <<>> /\ Head(s) \in Range(Digits) THEN <<Head(s)>> \o DigitRun(Tail(s))
    ELSE <<>>

RECURSIVE DecimalValue(_)
DecimalValue(ds) ==
    IF ds = <<>> THEN 0
    ELSE 10 * DecimalValue(SubSeq(ds, 1, Len(ds) - 1)) + DigitValue(ds[Len(ds)])

\* parseInt(value, 10): leading whitespace is skipped, a sign is taken, then the
\* digits up to the first other character; NaN when there is no digit.
parseInt(value) ==
    LET t == TrimStart(value)
        signed == t # <<>> /\ Head(t) \in {"+", "-"}
        ds == DigitRun(IF signed THEN Tail(t) ELSE t)
    IN IF ds = <<>> THEN NaN
       ELSE IF signed /\ Head(t) = "-" THEN Number(0 - DecimalValue(ds))
       ELSE Number(DecimalValue(ds))

----------------------------------------------------------------------------
(* The state after construction: both components mounted with their        *)
(* initial useState values, the remote store holding what an earlier       *)
(* session saved: two Google credentials and one inactive campaign,        *)
(* either a complete one (body template, subject line, two sender emails)  *)
(* or one that still lacks its body template.                              *)

SeedComplete ==
    [campaigns |->
        {[id |-> IdNames[1], user_id |-> TheUser, name |-> "New Campaign",
          is_active |-> FALSE, city |-> cities[1], subject_lines |-> <<<<"H", "i">>>>,
          days_till_close |-> "NA", updated_at |-> 0]},
     templates |->
        <<[campaign_id |-> IdNames[1], template_id |-> "h1", template_type |-> "body"]>>,
     emails |->
        <<[campaign_id |-> IdNames[1], email_address |-> G1, provider |-> "gmail",
           sending_rate |-> 1440, updated_at |-> 0],
          [campaign_id |-> IdNames[1], email_address |-> G2, provider |-> "gmail",
           sending_rate |-> 60, updated_at |-> 0]>>]

SeedNoBody ==
    [campaigns |->
        {[id |-> IdNames[1], user_id |-> TheUser, name |-> "Promo",
          is_active |-> FALSE, city |-> cities[2], subject_lines |-> <<<<"H", "i">>>>,
          days_till_close |-> "7", updated_at |-> 0]},
     templates |->
        <<[campaign_id |-> IdNames[1], template_id |-> "d1",
           template_type |-> "attachment"]>>,
     emails |->
        <<[campaign_id |-> IdNames[1], email_address |-> A1, provider |-> "amazon",
           sending_rate |-> 1440, updated_at |-> 0],
          [campaign_id |-> IdNames[1], email_address |-> G1, provider |-> "gmail",
           sending_rate |-> 1440, updated_at |-> 0]>>]

Seeds == {SeedComplete, SeedNoBody}

SeedGoogle ==
    <<[user_id |-> TheUser, address |-> G1, app_password |-> GoodPassword],
      [user_id |-> TheUser, address |-> G2, app_password |-> GoodPassword]>>

\* The state after construction of a run that stops reading the clock at h and lets
\* m handlers wait at one time.
InitUpTo(h, m) ==
    /\ user = TheUser
    /\ \E seed \in Seeds :
          /\ dbCampaigns = seed.campaigns
          /\ dbTemplates = seed.templates
          /\ dbEmails = seed.emails
    /\ dbGoogle = SeedGoogle
    /\ nextId = 2
    /\ clock = 0
    /\ horizon = h
    /\ maxPending = m
    /\ campaigns = <<>>
    /\ currentCampaign = Null
    /\ selectedTemplateId = ""
    /\ isLoading = TRUE
    /\ sesEmails = <<[address |-> A1, testing |-> FALSE]>>
    /\ googleEmails = <<>>
    /\ newEmail = <<>>
    /\ newAppPassword = <<>>
    /\ emailError = ""
    /\ passwordError = ""
    /\ gIsLoading = TRUE
    /\ lastAlert = ""
    /\ lastCalls = <<>>
    /\ inflight = {}

\* Number of handler invocations suspended at an await at one time: in the runs
\* that take a component's handlers one after another, and in the runs that
\* follow handlers through their overlaps.
MaxPending == 1
MaxInflight == 2

Init == InitUpTo(MaxClock, MaxInflight)

InitSerial == InitUpTo(MaxClock, MaxPending)

InitLong == InitUpTo(MaxClockLong, MaxPending)

\* What a handler leaves behind for the observer.
Done(alert, calls) ==
    /\ lastAlert' = alert
    /\ lastCalls' = calls

Browsing == ~isLoading /\ currentCampaign = Null
Editing == ~isLoading /\ currentCampaign # Null

\* A number no suspended invocation carries; it tells two invocations of the same
\* handler with the same arguments apart.
FreeTicket == CHOOSE n \in 1..MaxInflight : \A r \in inflight : r.n # n

----------------------------------------------------------------------------
(* AppPage.  An asynchronous handler runs up to its first await in the     *)
(* step that starts it; at every await the remote store executes the       *)
(* request in one step and the handler resumes with the reply in a later   *)
(* one, up to its next await; auth.getUser answers in one step.  In        *)
(* between, other handlers run.  A suspended handler keeps the             *)
(* currentCampaign of the render that started it (snap).                   *)

\* One suspended invocation of an AppPage handler: what it is (op), the await it is
\* at (pc), the reply ("" while the request is on its way), the currentCampaign of
\* its render (snap), its argument, its local variables, the calls it has issued
\* and the awaits whose call failed.
PageInvocation(op, pc, snap, arg) ==
    [n |-> FreeTicket, op |-> op, pc |-> pc, result |-> "", snap |-> snap, arg |-> arg,
     uid |-> NoUser, now |-> 0, campaignId |-> EmptyId, data |-> <<>>,
     calls |-> <<>>, failed |-> {}]

\* The invocation r with the reply of the call it awaits.
Replied(r, ok) ==
    [r EXCEPT !.result = IF ok THEN "ok" ELSE "error",
              !.failed = IF ok THEN r.failed ELSE r.failed \cup {r.pc}]

\* The name of the remote call an invocation awaits at pc.
CallName(op, pc, snap) ==
    IF pc \in {"getUser", "fetchUser"} THEN "auth.getUser"
    ELSE IF pc = "row"
    THEN (IF snap.id = EmptyId THEN "campaigns.insert" ELSE "campaigns.update")
    ELSE IF pc = "delT" THEN "campaign_templates.delete"
    ELSE IF pc = "delE" THEN "campaign_emails.delete"
    ELSE IF pc = "insT" THEN "campaign_templates.insert"
    ELSE IF pc = "insE" THEN "campaign_emails.insert"
    ELSE IF pc = "select" THEN "campaigns.select"
    ELSE IF op = "removeTemplate" THEN "campaign_templates.delete"
    ELSE "campaign_emails.delete"

\* The invocation r suspended at its next await pc, that call issued.
Await(r, pc) ==
    [r EXCEPT !.pc = pc, !.result = "",
              !.calls = Append(r.calls, CallName(r.op, pc, r.snap))]

LoadFailed == "Failed to load campaigns. Please try again."
SaveFailed == "Failed to save campaign. Please try again."

\* The mount effect calls fetchCampaigns, which runs up to its auth.getUser.
fetchCampaignsStart ==
    /\ isLoading
    /\ \A r \in inflight : r.op # "fetch"
    /\ Cardinality(inflight) < maxPending
    /\ inflight' = inflight \cup {Await(PageInvocation("fetch", "fetchUser", Null, <<>>),
                                        "fetchUser")}
    /\ UNCHANGED <<bounds, user, dbVars, clock, pageVars, credVars, tabVars, lastAlert,
                   lastCalls>>

\* auth.getUser of fetchCampaigns answers, in the mount effect or at the end of a
\* save: without a user the catch block alerts and fetchCampaigns returns, with one
\* the select is issued.
fetchCampaignsGetUser(r) ==
    /\ r \in inflight
    /\ r.pc = "fetchUser"
    /\ IF user = NoUser
       THEN /\ inflight' = inflight \ {r}
            /\ isLoading' = FALSE
            /\ currentCampaign' = IF r.op = "save" THEN Null ELSE currentCampaign
            /\ Done(LoadFailed, r.calls)
       ELSE /\ inflight' = (inflight \ {r}) \cup {Await([r EXCEPT !.uid = user], "select")}
            /\ UNCHANGED <<isLoading, currentCampaign, lastAlert, lastCalls>>
    /\ UNCHANGED <<bounds, user, dbVars, clock, campaigns, selectedTemplateId, credVars,
                   tabVars>>

\* The remote store executes the select of fetchCampaigns; ok: it succeeds.
fetchCampaignsRemote(r, ok) ==
    /\ r \in inflight
    /\ r.pc = "select"
    /\ r.result = ""
    /\ inflight' = (inflight \ {r}) \cup
          {[Replied(r, ok) EXCEPT
               !.data = IF ok
                        THEN transformedCampaigns(dbCampaigns, dbTemplates, dbEmails, r.uid)
                        ELSE <<>>]}
    /\ UNCHANGED <<bounds, user, dbVars, clock, pageVars, credVars, tabVars, lastAlert,
                   lastCalls>>

\* fetchCampaigns resumes with the reply of its select and returns; the save that
\* awaited it then closes the editor.
fetchCampaignsFinish(r) ==
    /\ r \in inflight
    /\ r.pc = "select"
    /\ r.result # ""
    /\ inflight' = inflight \ {r}
    /\ campaigns' = IF r.result = "ok" THEN r.data ELSE campaigns
    /\ isLoading' = FALSE
    /\ currentCampaign' = IF r.op = "save" THEN Null ELSE currentCampaign
    /\ Done(IF r.result = "ok" THEN "" ELSE LoadFailed, r.calls)
    /\ UNCHANGED <<bounds, user, dbVars, clock, selectedTemplateId, credVars, tabVars>>

handleCreateCampaign ==
    /\ Browsing
    /\ clock < horizon
    /\ clock' = clock + 1
    /\ currentCampaign' = newCampaign(clock')
    /\ Done("", <<>>)
    /\ UNCHANGED <<bounds, inflight, user, dbVars, campaigns, selectedTemplateId, isLoading,
                   credVars, tabVars>>

\* A click that opens the campaign whether or not it is active.
handleCampaignClickNoGuard(i) ==
    /\ Browsing
    /\ i \in DOMAIN campaigns
    /\ currentCampaign' = campaigns[i]
    /\ Done("", <<>>)
    /\ UNCHANGED <<bounds, inflight, user, dbVars, clock, campaigns, selectedTemplateId, isLoading,
                   credVars, tabVars>>

\* A click on the card of the i-th campaign of the list.
handleCampaignClick(i) ==
    /\ Browsing
    /\ i \in DOMAIN campaigns
    /\ IF campaigns[i].isActive
       THEN /\ Done("Cannot edit an active campaign. Please deactivate it first.",
                    <<>>)
            /\ UNCHANGED currentCampaign
       ELSE /\ currentCampaign' = campaigns[i]
            /\ Done("", <<>>)
    /\ UNCHANGED <<bounds, inflight, user, dbVars, clock, campaigns, selectedTemplateId, isLoading,
                   credVars, tabVars>>

\* A Cancel that writes the draft over the list entry of the campaign it edits.
CancelKeepingEdits ==
    /\ Editing
    /\ currentCampaign' = Null
    /\ campaigns' = [k \in DOMAIN campaigns |->
                        IF campaigns[k].id = currentCampaign.id THEN currentCampaign
                        ELSE campaigns[k]]
    /\ Done("", <<>>)
    /\ UNCHANGED <<bounds, inflight, user, dbVars, clock, selectedTemplateId, isLoading,
                   credVars, tabVars>>

\* The Cancel button: setCurrentCampaign(null).
Cancel ==
    /\ Editing
    /\ currentCampaign' = Null
    /\ Done("", <<>>)
    /\ UNCHANGED <<bounds, inflight, user, dbVars, clock, campaigns, selectedTemplateId, isLoading,
                   credVars, tabVars>>

\* A draft edit through handleUpdateCampaign.
EditDraft(updates) ==
    /\ Editing
    /\ clock < horizon
    /\ clock' = clock + 1
    /\ currentCampaign' = UpdatedCampaign(currentCampaign, updates, clock')
    /\ Done("", <<>>)
    /\ UNCHANGED <<bounds, inflight, user, dbVars, campaigns, isLoading, credVars, tabVars>>

\* The name input.
UpdateName(name) ==
    /\ EditDraft([name |-> name])
    /\ UNCHANGED selectedTemplateId

\* A Target City select rendered for every draft.
UpdateCityAnyDraft(city) ==
    /\ EditDraft([city |-> city])
    /\ UNCHANGED selectedTemplateId

\* The Target City select, rendered only while the draft has no id.
UpdateCity(city) ==
    /\ currentCampaign # Null
    /\ currentCampaign.id = EmptyId
    /\ EditDraft([city |-> city])
    /\ UNCHANGED selectedTemplateId

\* The Days Till Close select.
UpdateDaysTillClose(days) ==
    /\ EditDraft([daysTillClose |-> days])
    /\ UNCHANGED selectedTemplateId

\* value: the content of the newSubjectLine input.
handleAddSubjectLine(value) ==
    /\ Editing
    /\ IF Trim(value) = <<>>
       THEN /\ Done("", <<>>)
            /\ UNCHANGED <<bounds, inflight, user, dbVars, clock, pageVars, credVars, tabVars>>
       ELSE /\ EditDraft([subjectLines |-> Append(currentCampaign.subjectLines, Trim(value))])
            /\ UNCHANGED selectedTemplateId

handleRemoveSubjectLine(index) ==
    /\ currentCampaign # Null
    /\ index \in DOMAIN currentCampaign.subjectLines
    /\ EditDraft([subjectLines |->
              SubSeq(currentCampaign.subjectLines, 1, index - 1)
              \o SubSeq(currentCampaign.subjectLines, index + 1,
                        Len(currentCampaign.subjectLines))])
    /\ UNCHANGED selectedTemplateId

\* The options the template select offers besides the empty one.
TemplateOptions ==
    {templates[k].id : k \in
        {k \in DOMAIN templates :
            /\ \A j \in DOMAIN currentCampaign.templates :
                  currentCampaign.templates[j].template.id # templates[k].id
            /\ ~(templates[k].format = "html" /\ HasBody(currentCampaign.templates))}}

\* The template select: setSelectedTemplateId(e.target.value).
SelectTemplate(id) ==
    /\ Editing
    /\ id \in TemplateOptions \cup {""}
    /\ selectedTemplateId' = id
    /\ Done("", <<>>)
    /\ UNCHANGED <<bounds, inflight, user, dbVars, clock, campaigns, currentCampaign, isLoading,
                   credVars, tabVars>>

\* Every template taken for a body, whatever its format.
TemplateTypeAlwaysBody(template) == "body"

\* template.format === 'html' ? 'body' : 'attachment'
TemplateType(template) == IF template.format = "html" THEN "body" ELSE "attachment"

\* The Add Template button, enabled while a template is selected.
handleAddTemplate ==
    /\ Editing
    /\ selectedTemplateId # ""
    /\ LET template == TemplateById(selectedTemplateId)
           templateType == TemplateType(template)
       IN IF \E j \in DOMAIN currentCampaign.templates :
                currentCampaign.templates[j].template.id = template.id
          THEN /\ Done("This template has already been added to the campaign.", <<>>)
               /\ UNCHANGED <<bounds, inflight, user, dbVars, clock, pageVars, credVars, tabVars>>
          ELSE IF templateType = "body" /\ HasBody(currentCampaign.templates)
          THEN /\ Done("Only one HTML template can be used as the email body. Please remove the existing body template first.",
                       <<>>)
               /\ UNCHANGED <<bounds, inflight, user, dbVars, clock, pageVars, credVars, tabVars>>
          ELSE /\ EditDraft([templates |-> Append(currentCampaign.templates,
                          [template |-> template, type |-> templateType])])
               /\ selectedTemplateId' = ""

\* The X button of the j-th template of the draft.  The template of an unsaved
\* draft is removed at once; for a persisted draft the handler issues the remote
\* delete and is suspended.
handleRemoveTemplateStart(j) ==
    /\ Editing
    /\ j \in DOMAIN currentCampaign.templates
    /\ LET templateId == currentCampaign.templates[j].template.id IN
       IF currentCampaign.id = EmptyId
       THEN /\ EditDraft([templates |-> SelectSeq(currentCampaign.templates,
                                            LAMBDA t : t.template.id # templateId)])
            /\ UNCHANGED selectedTemplateId
       ELSE /\ Cardinality(inflight) < maxPending
            /\ inflight' = inflight \cup
                  {Await(PageInvocation("removeTemplate", "delete", currentCampaign,
                                        templateId), "delete")}
            /\ UNCHANGED <<bounds, user, dbVars, clock, pageVars, credVars, tabVars,
                           lastAlert, lastCalls>>

\* The remote store executes the delete of a suspended template removal; ok: it
\* succeeds.
handleRemoveTemplateRemote(r, ok) ==
    /\ r \in inflight
    /\ r.op = "removeTemplate"
    /\ r.result = ""
    /\ dbTemplates' =
          IF ok
          THEN SelectSeq(dbTemplates, LAMBDA ct :
                   ~(ct.campaign_id = r.snap.id /\ ct.template_id = r.arg))
          ELSE dbTemplates
    /\ inflight' = (inflight \ {r}) \cup {Replied(r, ok)}
    /\ UNCHANGED <<bounds, user, dbCampaigns, dbEmails, nextId, clock, pageVars,
                   credVars, tabVars, lastAlert, lastCalls>>

\* A suspended template removal resumes with the reply: handleUpdateCampaign of
\* its render sets the draft of that render without the template.
handleRemoveTemplateFinish(r) ==
    /\ r \in inflight
    /\ r.op = "removeTemplate"
    /\ r.result # ""
    /\ inflight' = inflight \ {r}
    /\ IF r.result = "ok"
       THEN /\ clock < horizon
            /\ clock' = clock + 1
            /\ currentCampaign' = UpdatedCampaign(r.snap,
                   [templates |-> SelectSeq(r.snap.templates,
                                      LAMBDA t : t.template.id # r.arg)],
                   clock')
            /\ Done("", r.calls)
       ELSE /\ UNCHANGED <<clock, currentCampaign>>
            /\ Done("Failed to remove template. Please try again.", r.calls)
    /\ UNCHANGED <<bounds, user, dbVars, campaigns, selectedTemplateId, isLoading,
                   credVars, tabVars>>

\* The options of the sender email select: the available emails not yet in the draft.
EmailOptions ==
    {e \in Range(availableEmails(sesEmails, googleEmails)) :
        \A j \in DOMAIN currentCampaign.emails : currentCampaign.emails[j].address # e.address}

\* The sender email select: the first available email with the chosen address is added.
handleAddEmail(address) ==
    /\ Editing
    /\ \E e \in EmailOptions : e.address = address
    /\ LET avail == availableEmails(sesEmails, googleEmails)
           email == avail[CHOOSE k \in DOMAIN avail :
                            /\ avail[k].address = address
                            /\ \A m \in 1..(k - 1) : avail[m].address # address]
       IN EditDraft([emails |-> Append(currentCampaign.emails,
                   [address |-> email.address, smtpProvider |-> email.smtpProvider,
                    sendingRate |-> Number(1440)])])
    /\ UNCHANGED selectedTemplateId

\* The X button of the j-th sender email of the draft.  The entry of an unsaved
\* draft is removed at once; for a persisted draft the handler issues the remote
\* delete and is suspended.
handleRemoveEmailStart(j) ==
    /\ Editing
    /\ j \in DOMAIN currentCampaign.emails
    /\ LET email == currentCampaign.emails[j] IN
       IF currentCampaign.id = EmptyId
       THEN /\ EditDraft([emails |-> SelectSeq(currentCampaign.emails,
                                         LAMBDA e : e.address # email.address)])
            /\ UNCHANGED selectedTemplateId
       ELSE /\ Cardinality(inflight) < maxPending
            /\ inflight' = inflight \cup
                  {Await(PageInvocation("removeEmail", "delete", currentCampaign,
                                        email.address), "delete")}
            /\ UNCHANGED <<bounds, user, dbVars, clock, pageVars, credVars, tabVars,
                           lastAlert, lastCalls>>

\* The remote store executes the delete of a suspended sender removal; ok: it
\* succeeds.
handleRemoveEmailRemote(r, ok) ==
    /\ r \in inflight
    /\ r.op = "removeEmail"
    /\ r.result = ""
    /\ dbEmails' =
          IF ok
          THEN SelectSeq(dbEmails, LAMBDA ce :
                   ~(ce.campaign_id = r.snap.id /\ ce.email_address = r.arg))
          ELSE dbEmails
    /\ inflight' = (inflight \ {r}) \cup {Replied(r, ok)}
    /\ UNCHANGED <<bounds, user, dbCampaigns, dbTemplates, nextId, clock, pageVars,
                   credVars, tabVars, lastAlert, lastCalls>>

\* A resumed removal that takes the entry out of the draft whatever the reply was.
handleRemoveEmailFinishOptimistic(r) ==
    /\ r \in inflight
    /\ r.op = "removeEmail"
    /\ r.result # ""
    /\ inflight' = inflight \ {r}
    /\ clock < horizon
    /\ clock' = clock + 1
    /\ currentCampaign' = UpdatedCampaign(r.snap,
           [emails |-> SelectSeq(r.snap.emails, LAMBDA e : e.address # r.arg)],
           clock')
    /\ Done(IF r.result = "ok" THEN "" ELSE "Failed to remove email. Please try again.",
            r.calls)
    /\ UNCHANGED <<bounds, user, dbVars, campaigns, selectedTemplateId, isLoading,
                   credVars, tabVars>>

\* A suspended sender removal resumes with the reply: handleUpdateCampaign of its
\* render sets the draft of that render without the entry.
handleRemoveEmailFinish(r) ==
    /\ r \in inflight
    /\ r.op = "removeEmail"
    /\ r.result # ""
    /\ inflight' = inflight \ {r}
    /\ IF r.result = "ok"
       THEN /\ clock < horizon
            /\ clock' = clock + 1
            /\ currentCampaign' = UpdatedCampaign(r.snap,
                   [emails |-> SelectSeq(r.snap.emails, LAMBDA e : e.address # r.arg)],
                   clock')
            /\ Done("", r.calls)
       ELSE /\ UNCHANGED <<clock, currentCampaign>>
            /\ Done("Failed to remove email. Please try again.", r.calls)
    /\ UNCHANGED <<bounds, user, dbVars, campaigns, selectedTemplateId, isLoading,
                   credVars, tabVars>>

\* The rate input of the j-th sender email; value: the content of the input.
handleUpdateEmailRate(j, value) ==
    /\ Editing
    /\ j \in DOMAIN currentCampaign.emails
    /\ LET email == currentCampaign.emails[j] IN
       EditDraft([emails |-> [k \in DOMAIN currentCampaign.emails |->
               IF currentCampaign.emails[k].address = email.address
               THEN [currentCampaign.emails[k] EXCEPT !.sendingRate = parseInt(value)]
               ELSE currentCampaign.emails[k]]])
    /\ UNCHANGED selectedTemplateId

\* The row handleSaveCampaign inserts for a new campaign.
InsertedRow(id, uid, name, draft, now) ==
    [id |-> id, user_id |-> uid, name |-> name, is_active |-> FALSE,
     city |-> draft.city, subject_lines |-> draft.subjectLines,
     days_till_close |-> draft.daysTillClose, updated_at |-> now]

\* An update that leaves is_active as it is in the row.
UpdatedRowKeepingActive(row, name, draft, now) ==
    [row EXCEPT !.name = name, !.subject_lines = draft.subjectLines,
                !.days_till_close = draft.daysTillClose, !.updated_at = now]

\* The row after handleSaveCampaign's update of an existing campaign.
UpdatedRow(row, name, draft, now) ==
    [row EXCEPT !.name = name, !.is_active = FALSE,
                !.subject_lines = draft.subjectLines,
                !.days_till_close = draft.daysTillClose, !.updated_at = now]

\* Association rows written without the role, every role read back as body.
TemplateRowsNoRole(id, draft) ==
    [k \in DOMAIN draft.templates |->
        [campaign_id |-> id, template_id |-> draft.templates[k].template.id,
         template_type |-> "body"]]

\* The campaign_templates rows handleSaveCampaign inserts.
TemplateRows(id, draft) ==
    [k \in DOMAIN draft.templates |->
        [campaign_id |-> id, template_id |-> draft.templates[k].template.id,
         template_type |-> draft.templates[k].type]]

\* The campaign_emails rows handleSaveCampaign inserts.
EmailRows(id, draft, now) ==
    [k \in DOMAIN draft.emails |->
        [campaign_id |-> id, email_address |-> draft.emails[k].address,
         provider |-> draft.emails[k].smtpProvider,
         sending_rate |-> RateOrDefault(draft.emails[k].sendingRate),
         updated_at |-> now]]

\* A Save Campaign button that asks the validator first and refuses an invalid
\* draft.
handleSaveCampaignStartValidated ==
    /\ Editing
    /\ IF validateCampaign(currentCampaign).valid
       THEN /\ Cardinality(inflight) < maxPending
            /\ inflight' = inflight \cup
                  {Await(PageInvocation("save", "getUser", currentCampaign,
                                        currentCampaign.name), "getUser")}
            /\ UNCHANGED <<lastAlert, lastCalls>>
       ELSE /\ Done(validateCampaign(currentCampaign).reason, <<>>)
            /\ UNCHANGED inflight
    /\ UNCHANGED <<bounds, user, dbVars, clock, pageVars, credVars, tabVars>>

\* The Save Campaign button: handleSaveCampaign(currentCampaign.name) up to its
\* auth.getUser.
handleSaveCampaignStart ==
    /\ Editing
    /\ Cardinality(inflight) < maxPending
    /\ inflight' = inflight \cup
          {Await(PageInvocation("save", "getUser", currentCampaign, currentCampaign.name),
                 "getUser")}
    /\ UNCHANGED <<bounds, user, dbVars, clock, pageVars, credVars, tabVars, lastAlert,
                   lastCalls>>

\* auth.getUser of a suspended save answers: without a user the catch block
\* alerts, with one the save reads the clock and issues the insert or the update
\* of the campaign row.
handleSaveCampaignGetUser(r) ==
    /\ r \in inflight
    /\ r.op = "save"
    /\ r.pc = "getUser"
    /\ IF user = NoUser
       THEN /\ inflight' = inflight \ {r}
            /\ Done(SaveFailed, r.calls)
            /\ UNCHANGED clock
       ELSE /\ clock < horizon
            /\ clock' = clock + 1
            /\ inflight' = (inflight \ {r}) \cup
                  {Await([r EXCEPT !.uid = user, !.now = clock', !.campaignId = r.snap.id],
                         "row")}
            /\ UNCHANGED <<lastAlert, lastCalls>>
    /\ UNCHANGED <<bounds, user, dbVars, pageVars, credVars, tabVars>>

\* The remote store executes the call a suspended save awaits; ok: it succeeds.
\* The reply of the insert carries the id of the new row.
handleSaveCampaignRemote(r, ok) ==
    /\ r \in inflight
    /\ r.op = "save"
    /\ r.pc \in {"row", "delT", "delE", "insT", "insE"}
    /\ r.result = ""
    /\ LET isNew == r.snap.id = EmptyId
           inserts == r.pc = "row" /\ isNew /\ ok
           campaignId == IF inserts THEN IdNames[nextId] ELSE r.campaignId
       IN /\ inserts => nextId <= Len(IdNames)
          /\ dbCampaigns' =
                IF r.pc # "row" \/ ~ok THEN dbCampaigns
                ELSE IF isNew
                THEN dbCampaigns \cup {InsertedRow(campaignId, r.uid, r.arg, r.snap, r.now)}
                ELSE {IF row.id = campaignId THEN UpdatedRow(row, r.arg, r.snap, r.now)
                      ELSE row : row \in dbCampaigns}
          /\ nextId' = IF inserts THEN nextId + 1 ELSE nextId
          /\ dbTemplates' =
                IF r.pc = "delT" /\ ok
                THEN SelectSeq(dbTemplates, LAMBDA ct : ct.campaign_id # campaignId)
                ELSE IF r.pc = "insT" /\ ok
                THEN dbTemplates \o TemplateRows(campaignId, r.snap)
                ELSE dbTemplates
          /\ dbEmails' =
                IF r.pc = "delE" /\ ok
                THEN SelectSeq(dbEmails, LAMBDA ce : ce.campaign_id # campaignId)
                ELSE IF r.pc = "insE" /\ ok
                THEN dbEmails \o EmailRows(campaignId, r.snap, r.now)
                ELSE dbEmails
          /\ inflight' = (inflight \ {r}) \cup
                {[Replied(r, ok) EXCEPT !.campaignId = campaignId]}
    /\ UNCHANGED <<bounds, user, clock, pageVars, credVars, tabVars, lastAlert,
                   lastCalls>>

\* The await a save goes to after the reply at pc: the two deletes, the insert of
\* the templates and of the sender emails when the draft has any, then
\* fetchCampaigns.
NextAwait(pc, draft) ==
    IF pc = "row" THEN "delT"
    ELSE IF pc = "delT" THEN "delE"
    ELSE IF pc = "delE" /\ Len(draft.templates) > 0 THEN "insT"
    ELSE IF pc \in {"delE", "insT"} /\ Len(draft.emails) > 0 THEN "insE"
    ELSE "fetchUser"

\* A resumed save that goes on to the association calls when the campaign row
\* write failed.
handleSaveCampaignResumeNoThrow(r) ==
    /\ r \in inflight
    /\ r.op = "save"
    /\ r.pc \in {"row", "delT", "delE", "insT", "insE"}
    /\ r.result # ""
    /\ IF r.result = "error" /\ r.pc \in {"insT", "insE"}
       THEN /\ inflight' = inflight \ {r}
            /\ Done(SaveFailed, r.calls)
       ELSE /\ inflight' = (inflight \ {r}) \cup {Await(r, NextAwait(r.pc, r.snap))}
            /\ UNCHANGED <<lastAlert, lastCalls>>
    /\ UNCHANGED <<bounds, user, dbVars, clock, pageVars, credVars, tabVars>>

\* A suspended save resumes with the reply of the call it awaited: a failed row
\* write or association insert is thrown to the catch block, which alerts; the
\* reply of a delete is not looked at; otherwise the next call is issued.
handleSaveCampaignResume(r) ==
    /\ r \in inflight
    /\ r.op = "save"
    /\ r.pc \in {"row", "delT", "delE", "insT", "insE"}
    /\ r.result # ""
    /\ IF r.result = "error" /\ r.pc \in {"row", "insT", "insE"}
       THEN /\ inflight' = inflight \ {r}
            /\ Done(SaveFailed, r.calls)
       ELSE /\ inflight' = (inflight \ {r}) \cup {Await(r, NextAwait(r.pc, r.snap))}
            /\ UNCHANGED <<lastAlert, lastCalls>>
    /\ UNCHANGED <<bounds, user, dbVars, clock, pageVars, credVars, tabVars>>

\* One suspended invocation of handleDeleteCampaign or handleToggleActive: the id
\* it was called with, the isActive it was called with, the clock value it read
\* before its await, the reply ("" while the request is on its way) and the calls
\* it has issued.
ListInvocation(op, campaignId, isActive, now, call) ==
    [n |-> FreeTicket, op |-> op, pc |-> "sent", campaignId |-> campaignId,
     isActive |-> isActive, now |-> now, result |-> "", calls |-> <<call>>]

DeleteRefused == "Cannot delete an active campaign. Please deactivate it first."

\* A delete that refuses an active campaign, as the click on its card does.
handleDeleteCampaignStartInactiveOnly(i) ==
    /\ Browsing
    /\ i \in DOMAIN campaigns
    /\ IF campaigns[i].isActive
       THEN /\ Done(DeleteRefused, <<>>)
            /\ UNCHANGED inflight
       ELSE /\ Cardinality(inflight) < maxPending
            /\ inflight' = inflight \cup
                  {ListInvocation("delete", campaigns[i].id, FALSE, 0, "campaigns.delete")}
            /\ UNCHANGED <<lastAlert, lastCalls>>
    /\ UNCHANGED <<bounds, user, dbVars, clock, pageVars, credVars, tabVars>>

\* The delete button of the i-th campaign of the list, confirmed: the handler up
\* to its await, the remote delete on its way.
handleDeleteCampaignStart(i) ==
    /\ Browsing
    /\ i \in DOMAIN campaigns
    /\ Cardinality(inflight) < maxPending
    /\ inflight' = inflight \cup
          {ListInvocation("delete", campaigns[i].id, FALSE, 0, "campaigns.delete")}
    /\ UNCHANGED <<bounds, user, dbVars, clock, pageVars, credVars, tabVars, lastAlert,
                   lastCalls>>

\* The remote store executes the delete of a suspended handleDeleteCampaign; ok:
\* it succeeds.
handleDeleteCampaignRemote(r, ok) ==
    /\ r \in inflight
    /\ r.op = "delete"
    /\ r.pc = "sent"
    /\ dbCampaigns' = IF ok THEN {row \in dbCampaigns : row.id # r.campaignId}
                      ELSE dbCampaigns
    /\ inflight' = (inflight \ {r}) \cup
          {[r EXCEPT !.pc = "replied", !.result = IF ok THEN "ok" ELSE "error"]}
    /\ UNCHANGED <<bounds, user, dbTemplates, dbEmails, nextId, clock, pageVars,
                   credVars, tabVars, lastAlert, lastCalls>>

\* A suspended handleDeleteCampaign resumes with the reply:
\* setCampaigns(prev => prev.filter(c => c.id !== id)), or the alert.
handleDeleteCampaignFinish(r) ==
    /\ r \in inflight
    /\ r.op = "delete"
    /\ r.pc = "replied"
    /\ inflight' = inflight \ {r}
    /\ campaigns' = IF r.result = "ok"
                    THEN SelectSeq(campaigns, LAMBDA c : c.id # r.campaignId)
                    ELSE campaigns
    /\ Done(IF r.result = "ok" THEN "" ELSE "Failed to delete campaign. Please try again.",
            r.calls)
    /\ UNCHANGED <<bounds, user, dbVars, clock, currentCampaign, selectedTemplateId,
                   isLoading, credVars, tabVars>>

\* Mutant of handleToggleActive: activation is not validated.
handleToggleActiveStartUnchecked(i) ==
    /\ Browsing
    /\ i \in DOMAIN campaigns
    /\ clock < horizon
    /\ Cardinality(inflight) < maxPending
    /\ clock' = clock + 1
    /\ inflight' = inflight \cup
          {ListInvocation("toggle", campaigns[i].id, ~campaigns[i].isActive, clock',
                          "campaigns.update")}
    /\ UNCHANGED <<bounds, user, dbVars, pageVars, credVars, tabVars, lastAlert,
                   lastCalls>>

\* The toggle of the i-th campaign of the list: handleToggleActive(campaign.id,
\* e.target.checked) up to its await; a campaign that passed the check has its
\* update, stamped with the clock, on its way.
handleToggleActiveStart(i) ==
    /\ Browsing
    /\ i \in DOMAIN campaigns
    /\ LET campaignId == campaigns[i].id
           isActive == ~campaigns[i].isActive
           campaign == campaigns[CHOOSE k \in DOMAIN campaigns :
                                    /\ campaigns[k].id = campaignId
                                    /\ \A m \in 1..(k - 1) : campaigns[m].id # campaignId]
           validation == validateCampaign(campaign)
       IN IF isActive /\ ~validation.valid
          THEN /\ Done(validation.reason, <<>>)
               /\ UNCHANGED <<clock, inflight>>
          ELSE /\ clock < horizon
               /\ Cardinality(inflight) < maxPending
               /\ clock' = clock + 1
               /\ inflight' = inflight \cup
                     {ListInvocation("toggle", campaignId, isActive, clock',
                                     "campaigns.update")}
               /\ UNCHANGED <<lastAlert, lastCalls>>
    /\ UNCHANGED <<bounds, user, dbVars, pageVars, credVars, tabVars>>

\* The remote store executes the update of a suspended toggle; ok: it succeeds.
handleToggleActiveRemote(r, ok) ==
    /\ r \in inflight
    /\ r.op = "toggle"
    /\ r.pc = "sent"
    /\ dbCampaigns' =
          IF ok
          THEN {IF row.id = r.campaignId
                THEN [row EXCEPT !.is_active = r.isActive, !.updated_at = r.now]
                ELSE row : row \in dbCampaigns}
          ELSE dbCampaigns
    /\ inflight' = (inflight \ {r}) \cup
          {[r EXCEPT !.pc = "replied", !.result = IF ok THEN "ok" ELSE "error"]}
    /\ UNCHANGED <<bounds, user, dbTemplates, dbEmails, nextId, clock, pageVars,
                   credVars, tabVars, lastAlert, lastCalls>>

\* A suspended toggle resumes with the reply: setCampaigns(prev => prev.map(...)),
\* which reads the clock again for the entry with the toggled id and reads nothing
\* when that entry has left the list, or the alert.
handleToggleActiveFinish(r) ==
    /\ r \in inflight
    /\ r.op = "toggle"
    /\ r.pc = "replied"
    /\ inflight' = inflight \ {r}
    /\ IF r.result = "ok"
       THEN /\ IF \E k \in DOMAIN campaigns : campaigns[k].id = r.campaignId
               THEN /\ clock < horizon
                    /\ clock' = clock + 1
                    /\ campaigns' =
                          [k \in DOMAIN campaigns |->
                              IF campaigns[k].id = r.campaignId
                              THEN [campaigns[k] EXCEPT !.isActive = r.isActive,
                                                        !.lastModified = clock']
                              ELSE campaigns[k]]
               ELSE UNCHANGED <<clock, campaigns>>
            /\ Done("", r.calls)
       ELSE /\ UNCHANGED <<clock, campaigns>>
            /\ Done("Failed to update campaign status. Please try again.", r.calls)
    /\ UNCHANGED <<bounds, user, dbVars, currentCampaign, selectedTemplateId, isLoading,
                   credVars, tabVars>>

----------------------------------------------------------------------------
(* GoogleTab.  An asynchronous handler runs up to its first await in the   *)
(* step that starts it; auth.getUser answers in one step; the remote store *)
(* executes the request that follows in one step and the handler resumes   *)
(* with the reply in a later one.  In between, other handlers run.  A      *)
(* suspended handler keeps the values of the render that started it:       *)
(* googleEmails, newEmail and newAppPassword.  Setting googleEmails        *)
(* re-runs AppPage's reconciliation effect, which is part of the step that *)
(* set it.                                                                 *)

\* One suspended invocation: what it is (op), where it is (pc: "getUser" while
\* auth.getUser is awaited, "sent" when its request is on its way, "replied" when
\* the reply is there), the googleEmails of its render (snap), its arguments, the
\* user auth.getUser gave it, the reply and the calls it has issued.
Invocation(op, pc, snap, address, secret, result) ==
    [n |-> FreeTicket, op |-> op, pc |-> pc, snap |-> snap, address |-> address,
     secret |-> secret, result |-> result, uid |-> NoUser, data |-> <<>>,
     calls |-> IF pc = "getUser" THEN <<"auth.getUser">> ELSE <<>>]

\* The invocation r with the user auth.getUser gave it and its request issued.
Sent(r, call) ==
    [r EXCEPT !.pc = "sent", !.uid = user, !.calls = Append(r.calls, call)]

\* The mount effect calls fetchGoogleEmails, which runs up to its auth.getUser.
fetchGoogleEmailsStart ==
    /\ gIsLoading
    /\ \A r \in inflight : r.op # "gfetch"
    /\ Cardinality(inflight) < maxPending
    /\ inflight' = inflight \cup {Invocation("gfetch", "getUser", <<>>, <<>>, <<>>, "")}
    /\ UNCHANGED <<bounds, user, dbVars, clock, pageVars, credVars, tabVars, lastAlert,
                   lastCalls>>

\* auth.getUser of fetchGoogleEmails answers: without a user the spinner is taken
\* down and the handler returns, with one the select is issued.
fetchGoogleEmailsGetUser(r) ==
    /\ r \in inflight
    /\ r.op = "gfetch"
    /\ r.pc = "getUser"
    /\ IF user = NoUser
       THEN /\ inflight' = inflight \ {r}
            /\ gIsLoading' = FALSE
            /\ Done("", r.calls)
       ELSE /\ inflight' = (inflight \ {r}) \cup {Sent(r, "google_smtp_emails.select")}
            /\ UNCHANGED <<gIsLoading, lastAlert, lastCalls>>
    /\ UNCHANGED <<bounds, user, dbVars, clock, pageVars, credVars, formVars>>

\* The remote store executes the select of fetchGoogleEmails; ok: it succeeds.
fetchGoogleEmailsRemote(r, ok) ==
    /\ r \in inflight
    /\ r.op = "gfetch"
    /\ r.pc = "sent"
    /\ inflight' = (inflight \ {r}) \cup
          {[r EXCEPT !.pc = "replied", !.result = IF ok THEN "ok" ELSE "error",
                     !.data = IF ok
                              THEN SelectSeq(dbGoogle, LAMBDA row : row.user_id = r.uid)
                              ELSE <<>>]}
    /\ UNCHANGED <<bounds, user, dbVars, clock, pageVars, credVars, tabVars, lastAlert,
                   lastCalls>>

\* fetchGoogleEmails resumes with the reply of its select: the rows become the
\* list, an error is logged only; the spinner is taken down.
fetchGoogleEmailsFinish(r) ==
    /\ r \in inflight
    /\ r.op = "gfetch"
    /\ r.pc = "replied"
    /\ inflight' = inflight \ {r}
    /\ googleEmails' =
          IF r.result = "ok"
          THEN [k \in DOMAIN r.data |->
                   [address |-> r.data[k].address,
                    appPassword |-> r.data[k].app_password, testing |-> FALSE]]
          ELSE googleEmails
    /\ campaigns' = IF r.result = "ok" THEN Reconcile(campaigns, sesEmails, googleEmails')
                    ELSE campaigns
    /\ gIsLoading' = FALSE
    /\ Done("", r.calls)
    /\ UNCHANGED <<bounds, user, dbVars, dbGoogle, clock, currentCampaign,
                   selectedTemplateId, isLoading, sesEmails, formVars>>

\* onChange of the address input: setNewEmail(e.target.value); setEmailError('').
ChangeNewEmail(value) ==
    /\ ~gIsLoading
    /\ newEmail' = value
    /\ emailError' = ""
    /\ Done("", <<>>)
    /\ UNCHANGED <<bounds, inflight, user, dbVars, clock, pageVars, credVars,
                   newAppPassword, passwordError, gIsLoading>>

\* onChange of the password input: setNewAppPassword(e.target.value);
\* setPasswordError('').
ChangeNewAppPassword(value) ==
    /\ ~gIsLoading
    /\ newAppPassword' = value
    /\ passwordError' = ""
    /\ Done("", <<>>)
    /\ UNCHANGED <<bounds, inflight, user, dbVars, clock, pageVars, credVars,
                   newEmail, emailError, gIsLoading>>

\* Outcomes of the remote insert of a credential.
InsertOutcomes == {"ok", "23505", "error"}

\* An Add Email submit that appends without looking into the cached list first.
handleAddGoogleEmailStartNoLocalCheck ==
    /\ ~gIsLoading
    /\ IF ~validateEmail(newEmail)
       THEN /\ emailError' = "Please enter a valid Gmail address"
            /\ Done("", <<>>)
            /\ UNCHANGED <<passwordError, inflight>>
       ELSE IF ~validateAppPassword(newAppPassword)
       THEN /\ passwordError' = "App password must be 16 characters long"
            /\ Done("", <<>>)
            /\ UNCHANGED <<emailError, inflight>>
       ELSE /\ Cardinality(inflight) < maxPending
            /\ inflight' = inflight \cup
                  {Invocation("add", "getUser", googleEmails, newEmail, newAppPassword, "")}
            /\ UNCHANGED <<emailError, passwordError, lastAlert, lastCalls>>
    /\ UNCHANGED <<bounds, user, dbVars, clock, pageVars, credVars, newEmail,
                   newAppPassword, gIsLoading>>

\* The Add Email form submitted: the handler up to its first await.  A failing
\* check sets its own error and returns.
handleAddGoogleEmailStart ==
    /\ ~gIsLoading
    /\ IF ~validateEmail(newEmail)
       THEN /\ emailError' = "Please enter a valid Gmail address"
            /\ Done("", <<>>)
            /\ UNCHANGED <<passwordError, inflight>>
       ELSE IF ~validateAppPassword(newAppPassword)
       THEN /\ passwordError' = "App password must be 16 characters long"
            /\ Done("", <<>>)
            /\ UNCHANGED <<emailError, inflight>>
       ELSE IF \E k \in DOMAIN googleEmails : googleEmails[k].address = newEmail
       THEN /\ emailError' = "This email is already in the list"
            /\ Done("", <<>>)
            /\ UNCHANGED <<passwordError, inflight>>
       ELSE /\ Cardinality(inflight) < maxPending
            /\ inflight' = inflight \cup
                  {Invocation("add", "getUser", googleEmails, newEmail, newAppPassword, "")}
            /\ UNCHANGED <<emailError, passwordError, lastAlert, lastCalls>>
    /\ UNCHANGED <<bounds, user, dbVars, clock, pageVars, credVars, newEmail,
                   newAppPassword, gIsLoading>>

\* auth.getUser of a suspended add answers: without a user the handler throws into
\* its catch block, which alerts; with one the insert is issued.
handleAddGoogleEmailGetUser(r) ==
    /\ r \in inflight
    /\ r.op = "add"
    /\ r.pc = "getUser"
    /\ IF user = NoUser
       THEN /\ inflight' = inflight \ {r}
            /\ Done("Failed to add email. Please try again.", r.calls)
       ELSE /\ inflight' = (inflight \ {r}) \cup {Sent(r, "google_smtp_emails.insert")}
            /\ UNCHANGED <<lastAlert, lastCalls>>
    /\ UNCHANGED <<bounds, user, dbVars, clock, pageVars, credVars, tabVars>>

\* The remote store executes the insert of a suspended add; out: its outcome, code
\* 23505 being the answer to an address the user has a row for.
handleAddGoogleEmailRemote(r, out) ==
    /\ r \in inflight
    /\ r.op = "add"
    /\ r.pc = "sent"
    /\ out \in InsertOutcomes
    /\ LET exists == \E k \in DOMAIN dbGoogle :
                        dbGoogle[k].user_id = r.uid /\ dbGoogle[k].address = r.address
       IN /\ out = "23505" => exists
          /\ out = "ok" => ~exists
          /\ dbGoogle' =
                IF out = "ok"
                THEN Append(dbGoogle, [user_id |-> r.uid, address |-> r.address,
                                       app_password |-> r.secret])
                ELSE dbGoogle
          /\ inflight' = (inflight \ {r}) \cup
                {[r EXCEPT !.pc = "replied", !.result = out]}
    /\ UNCHANGED <<bounds, user, dbVars, clock, pageVars, sesEmails, googleEmails,
                   tabVars, lastAlert, lastCalls>>

\* A resumed add that appends the credential whatever the reply was.
handleAddGoogleEmailFinishAlways(r) ==
    /\ r \in inflight
    /\ r.op = "add"
    /\ r.pc = "replied"
    /\ inflight' = inflight \ {r}
    /\ googleEmails' = Append(r.snap, [address |-> r.address, appPassword |-> r.secret,
                                       testing |-> FALSE])
    /\ campaigns' = Reconcile(campaigns, sesEmails, googleEmails')
    /\ newEmail' = IF r.result = "ok" THEN <<>> ELSE newEmail
    /\ newAppPassword' = IF r.result = "ok" THEN <<>> ELSE newAppPassword
    /\ emailError' = IF r.result = "23505" THEN "This email is already registered"
                     ELSE IF r.result = "ok" THEN "" ELSE emailError
    /\ passwordError' = IF r.result = "ok" THEN "" ELSE passwordError
    /\ Done(IF r.result = "error" THEN "Failed to add email. Please try again." ELSE "",
            r.calls)
    /\ UNCHANGED <<bounds, user, dbVars, dbGoogle, clock, currentCampaign,
                   selectedTemplateId, isLoading, sesEmails, gIsLoading>>

\* A suspended add resumes with the reply of its insert: on success the list of
\* its render with the new credential becomes the list and the form is emptied,
\* code 23505 sets the address error, any other error reaches the alert.
handleAddGoogleEmailFinish(r) ==
    /\ r \in inflight
    /\ r.op = "add"
    /\ r.pc = "replied"
    /\ inflight' = inflight \ {r}
    /\ googleEmails' =
          IF r.result = "ok"
          THEN Append(r.snap, [address |-> r.address, appPassword |-> r.secret,
                               testing |-> FALSE])
          ELSE googleEmails
    /\ campaigns' = IF r.result = "ok" THEN Reconcile(campaigns, sesEmails, googleEmails')
                    ELSE campaigns
    /\ newEmail' = IF r.result = "ok" THEN <<>> ELSE newEmail
    /\ newAppPassword' = IF r.result = "ok" THEN <<>> ELSE newAppPassword
    /\ emailError' = IF r.result = "23505" THEN "This email is already registered"
                     ELSE IF r.result = "ok" THEN "" ELSE emailError
    /\ passwordError' = IF r.result = "ok" THEN "" ELSE passwordError
    /\ Done(IF r.result = "error" THEN "Failed to add email. Please try again." ELSE "",
            r.calls)
    /\ UNCHANGED <<bounds, user, dbVars, dbGoogle, clock, currentCampaign,
                   selectedTemplateId, isLoading, sesEmails, gIsLoading>>

\* The X button of the k-th credential: the handler up to its first await.
handleRemoveGoogleEmailStart(k) ==
    /\ ~gIsLoading
    /\ k \in DOMAIN googleEmails
    /\ Cardinality(inflight) < maxPending
    /\ inflight' = inflight \cup
          {Invocation("remove", "getUser", googleEmails, googleEmails[k].address, <<>>, "")}
    /\ UNCHANGED <<bounds, user, dbVars, clock, pageVars, credVars, tabVars, lastAlert,
                   lastCalls>>

\* auth.getUser of a suspended removal answers: without a user the handler throws
\* into its catch block, which alerts; with one the delete is issued.
handleRemoveGoogleEmailGetUser(r) ==
    /\ r \in inflight
    /\ r.op = "remove"
    /\ r.pc = "getUser"
    /\ IF user = NoUser
       THEN /\ inflight' = inflight \ {r}
            /\ Done("Failed to remove email. Please try again.", r.calls)
       ELSE /\ inflight' = (inflight \ {r}) \cup {Sent(r, "google_smtp_emails.delete")}
            /\ UNCHANGED <<lastAlert, lastCalls>>
    /\ UNCHANGED <<bounds, user, dbVars, clock, pageVars, credVars, tabVars>>

\* The remote store executes the delete of a suspended removal; ok: it succeeds.
handleRemoveGoogleEmailRemote(r, ok) ==
    /\ r \in inflight
    /\ r.op = "remove"
    /\ r.pc = "sent"
    /\ dbGoogle' =
          IF ok
          THEN SelectSeq(dbGoogle, LAMBDA row :
                   ~(row.user_id = r.uid /\ row.address = r.address))
          ELSE dbGoogle
    /\ inflight' = (inflight \ {r}) \cup
          {[r EXCEPT !.pc = "replied", !.result = IF ok THEN "ok" ELSE "error"]}
    /\ UNCHANGED <<bounds, user, dbVars, clock, pageVars, sesEmails, googleEmails,
                   tabVars, lastAlert, lastCalls>>

\* A suspended removal resumes with the reply: on success the list of its render
\* without the address becomes the list, an error reaches the alert.
handleRemoveGoogleEmailFinish(r) ==
    /\ r \in inflight
    /\ r.op = "remove"
    /\ r.pc = "replied"
    /\ inflight' = inflight \ {r}
    /\ googleEmails' =
          IF r.result = "ok"
          THEN SelectSeq(r.snap, LAMBDA email : email.address # r.address)
          ELSE googleEmails
    /\ campaigns' = IF r.result = "ok" THEN Reconcile(campaigns, sesEmails, googleEmails')
                    ELSE campaigns
    /\ Done(IF r.result = "ok" THEN "" ELSE "Failed to remove email. Please try again.",
            r.calls)
    /\ UNCHANGED <<bounds, user, dbVars, dbGoogle, clock, currentCampaign,
                   selectedTemplateId, isLoading, sesEmails, tabVars>>

\* The flag set on every entry of the list, whatever its address.
SetTestingAll(list, address, flag) ==
    [k \in DOMAIN list |-> [list[k] EXCEPT !.testing = flag]]

\* googleEmails with the testing flag of every entry of that address set to flag.
SetTesting(list, address, flag) ==
    [k \in DOMAIN list |->
        IF list[k].address = address THEN [list[k] EXCEPT !.testing = flag] ELSE list[k]]

\* The Test button of the k-th credential, enabled while it is not testing: the
\* handler up to its await of the two-second timer.
handleTestEmailStart(k) ==
    /\ ~gIsLoading
    /\ k \in DOMAIN googleEmails
    /\ ~googleEmails[k].testing
    /\ Cardinality(inflight) < maxPending
    /\ googleEmails' = SetTesting(googleEmails, googleEmails[k].address, TRUE)
    /\ campaigns' = Reconcile(campaigns, sesEmails, googleEmails')
    /\ inflight' = inflight \cup
          {Invocation("test", "replied", <<>>, googleEmails[k].address, <<>>, "ok")}
    /\ UNCHANGED <<bounds, user, dbVars, dbGoogle, clock, currentCampaign,
                   selectedTemplateId, isLoading, sesEmails, tabVars, lastAlert,
                   lastCalls>>

\* The timer of a suspended test fires.
handleTestEmailFinish(r) ==
    /\ r \in inflight
    /\ r.op = "test"
    /\ inflight' = inflight \ {r}
    /\ googleEmails' = SetTesting(googleEmails, r.address, FALSE)
    /\ campaigns' = Reconcile(campaigns, sesEmails, googleEmails')
    /\ Done("Test email sent successfully!", <<>>)
    /\ UNCHANGED <<bounds, user, dbVars, dbGoogle, clock, currentCampaign,
                   selectedTemplateId, isLoading, sesEmails, tabVars>>

\* The session ends: supabase.auth.getUser() yields no user from now on.
SessionExpires ==
    /\ user # NoUser
    /\ user' = NoUser
    /\ Done("", <<>>)
    /\ UNCHANGED <<bounds, inflight, dbVars, clock, pageVars, credVars, tabVars>>

----------------------------------------------------------------------------

(* Both components with every handler.  While a handler waits at an await   *)
(* the user goes on clicking and typing; a run lets maxPending handlers    *)
(* wait at one time.                                                       *)

Next ==
    \/ fetchCampaignsStart
    \/ \E r \in inflight : fetchCampaignsGetUser(r)
    \/ \E r \in inflight, ok \in BOOLEAN : fetchCampaignsRemote(r, ok)
    \/ \E r \in inflight : fetchCampaignsFinish(r)
    \/ handleCreateCampaign
    \/ \E i \in DOMAIN campaigns : handleCampaignClick(i)
    \/ Cancel
    \/ \E name \in NameInputs : UpdateName(name)
    \/ \E city \in CityInputs : UpdateCity(city)
    \/ \E days \in DaysInputs : UpdateDaysTillClose(days)
    \/ \E value \in SubjectInputs : handleAddSubjectLine(value)
    \/ \E index \in 1..MaxClock : handleRemoveSubjectLine(index)
    \/ \E id \in {templates[k].id : k \in DOMAIN templates} \cup {""} :
          SelectTemplate(id)
    \/ handleAddTemplate
    \/ \E j \in DOMAIN templates : handleRemoveTemplateStart(j)
    \/ \E r \in inflight, ok \in BOOLEAN : handleRemoveTemplateRemote(r, ok)
    \/ \E r \in inflight : handleRemoveTemplateFinish(r)
    \/ \E address \in {A1, G1, G2} : handleAddEmail(address)
    \/ \E j \in 1..3 : handleRemoveEmailStart(j)
    \/ \E r \in inflight, ok \in BOOLEAN : handleRemoveEmailRemote(r, ok)
    \/ \E r \in inflight : handleRemoveEmailFinish(r)
    \/ \E j \in 1..3, value \in RateInputs : handleUpdateEmailRate(j, value)
    \/ handleSaveCampaignStart
    \/ \E r \in inflight : handleSaveCampaignGetUser(r)
    \/ \E r \in inflight, ok \in BOOLEAN : handleSaveCampaignRemote(r, ok)
    \/ \E r \in inflight : handleSaveCampaignResume(r)
    \/ \E i \in DOMAIN campaigns : handleDeleteCampaignStart(i)
    \/ \E r \in inflight, ok \in BOOLEAN : handleDeleteCampaignRemote(r, ok)
    \/ \E r \in inflight : handleDeleteCampaignFinish(r)
    \/ \E i \in DOMAIN campaigns : handleToggleActiveStart(i)
    \/ \E r \in inflight, ok \in BOOLEAN : handleToggleActiveRemote(r, ok)
    \/ \E r \in inflight : handleToggleActiveFinish(r)
    \/ fetchGoogleEmailsStart
    \/ \E r \in inflight : fetchGoogleEmailsGetUser(r)
    \/ \E r \in inflight, ok \in BOOLEAN : fetchGoogleEmailsRemote(r, ok)
    \/ \E r \in inflight : fetchGoogleEmailsFinish(r)
    \/ \E k \in DOMAIN googleEmails : handleRemoveGoogleEmailStart(k)
    \/ \E r \in inflight : handleRemoveGoogleEmailGetUser(r)
    \/ \E r \in inflight, ok \in BOOLEAN : handleRemoveGoogleEmailRemote(r, ok)
    \/ \E r \in inflight : handleRemoveGoogleEmailFinish(r)
    \/ \E value \in EmailInputs \cup {G3} : ChangeNewEmail(value)
    \/ \E value \in PasswordInputs : ChangeNewAppPassword(value)
    \/ handleAddGoogleEmailStart
    \/ \E r \in inflight : handleAddGoogleEmailGetUser(r)
    \/ \E r \in inflight, out \in InsertOutcomes : handleAddGoogleEmailRemote(r, out)
    \/ \E r \in inflight : handleAddGoogleEmailFinish(r)
    \/ \E k \in DOMAIN googleEmails : handleTestEmailStart(k)
    \/ \E r \in inflight : handleTestEmailFinish(r)
    \/ SessionExpires

Spec == Init /\ [][Next]_vars

----------------------------------------------------------------------------
(* The editor: the steps of Next that load the list and the credentials,   *)
(* open and leave a draft, edit it and save it.                            *)

NextEditor ==
    \/ fetchCampaignsStart
    \/ \E r \in inflight : fetchCampaignsGetUser(r)
    \/ \E r \in inflight, ok \in BOOLEAN : fetchCampaignsRemote(r, ok)
    \/ \E r \in inflight : fetchCampaignsFinish(r)
    \/ fetchGoogleEmailsStart
    \/ \E r \in inflight : fetchGoogleEmailsGetUser(r)
    \/ \E r \in inflight : fetchGoogleEmailsRemote(r, TRUE)
    \/ \E r \in inflight : fetchGoogleEmailsFinish(r)
    \/ handleCreateCampaign
    \/ \E i \in DOMAIN campaigns : handleCampaignClick(i)
    \/ Cancel
    \/ \E name \in NameInputs : UpdateName(name)
    \/ \E city \in CityInputs : UpdateCity(city)
    \/ \E days \in DaysInputs : UpdateDaysTillClose(days)
    \/ \E value \in SubjectInputs : handleAddSubjectLine(value)
    \/ \E index \in 1..MaxClock : handleRemoveSubjectLine(index)
    \/ \E id \in {templates[k].id : k \in DOMAIN templates} \cup {""} :
          SelectTemplate(id)
    \/ handleAddTemplate
    \/ \E j \in DOMAIN templates : handleRemoveTemplateStart(j)
    \/ \E r \in inflight, ok \in BOOLEAN : handleRemoveTemplateRemote(r, ok)
    \/ \E r \in inflight : handleRemoveTemplateFinish(r)
    \/ \E address \in {A1, G1, G2} : handleAddEmail(address)
    \/ \E j \in 1..3 : handleRemoveEmailStart(j)
    \/ \E r \in inflight, ok \in BOOLEAN : handleRemoveEmailRemote(r, ok)
    \/ \E r \in inflight : handleRemoveEmailFinish(r)
    \/ \E j \in 1..3, value \in RateInputs : handleUpdateEmailRate(j, value)
    \/ handleSaveCampaignStart
    \/ \E r \in inflight : handleSaveCampaignGetUser(r)
    \/ \E r \in inflight, ok \in BOOLEAN : handleSaveCampaignRemote(r, ok)
    \/ \E r \in inflight : handleSaveCampaignResume(r)

SpecEditor == InitSerial /\ [][NextEditor]_vars

----------------------------------------------------------------------------
(* The list: the steps of Next that load the list and the credentials,     *)
(* toggle and delete campaigns, remove credentials, and open, leave and    *)
(* save a draft as it is.                                                  *)

NextList ==
    \/ fetchCampaignsStart
    \/ \E r \in inflight : fetchCampaignsGetUser(r)
    \/ \E r \in inflight, ok \in BOOLEAN : fetchCampaignsRemote(r, ok)
    \/ \E r \in inflight : fetchCampaignsFinish(r)
    \/ fetchGoogleEmailsStart
    \/ \E r \in inflight : fetchGoogleEmailsGetUser(r)
    \/ \E r \in inflight, ok \in BOOLEAN : fetchGoogleEmailsRemote(r, ok)
    \/ \E r \in inflight : fetchGoogleEmailsFinish(r)
    \/ handleCreateCampaign
    \/ \E i \in DOMAIN campaigns : handleCampaignClick(i)
    \/ Cancel
    \/ handleSaveCampaignStart
    \/ \E r \in inflight : handleSaveCampaignGetUser(r)
    \/ \E r \in inflight, ok \in BOOLEAN : handleSaveCampaignRemote(r, ok)
    \/ \E r \in inflight : handleSaveCampaignResume(r)
    \/ \E i \in DOMAIN campaigns : handleDeleteCampaignStart(i)
    \/ \E r \in inflight, ok \in BOOLEAN : handleDeleteCampaignRemote(r, ok)
    \/ \E r \in inflight : handleDeleteCampaignFinish(r)
    \/ \E i \in DOMAIN campaigns : handleToggleActiveStart(i)
    \/ \E r \in inflight, ok \in BOOLEAN : handleToggleActiveRemote(r, ok)
    \/ \E r \in inflight : handleToggleActiveFinish(r)
    \/ \E k \in DOMAIN googleEmails : handleRemoveGoogleEmailStart(k)
    \/ \E r \in inflight : handleRemoveGoogleEmailGetUser(r)
    \/ \E r \in inflight, ok \in BOOLEAN : handleRemoveGoogleEmailRemote(r, ok)
    \/ \E r \in inflight : handleRemoveGoogleEmailFinish(r)

SpecList == InitSerial /\ [][NextList]_vars

(* The list with toggles, deletes and credential removals interleaved: a   *)
(* campaign is deleted, toggled again or loses its senders while the       *)
(* update of a toggle is pending.                                          *)

NextToggleDelete ==
    \/ fetchCampaignsStart
    \/ \E r \in inflight : fetchCampaignsGetUser(r)
    \/ \E r \in inflight, ok \in BOOLEAN : fetchCampaignsRemote(r, ok)
    \/ \E r \in inflight : fetchCampaignsFinish(r)
    \/ \E i \in DOMAIN campaigns : handleDeleteCampaignStart(i)
    \/ \E r \in inflight, ok \in BOOLEAN : handleDeleteCampaignRemote(r, ok)
    \/ \E r \in inflight : handleDeleteCampaignFinish(r)
    \/ \E i \in DOMAIN campaigns : handleToggleActiveStart(i)
    \/ \E r \in inflight, ok \in BOOLEAN : handleToggleActiveRemote(r, ok)
    \/ \E r \in inflight : handleToggleActiveFinish(r)
    \/ fetchGoogleEmailsStart
    \/ \E r \in inflight : fetchGoogleEmailsGetUser(r)
    \/ \E r \in inflight : fetchGoogleEmailsRemote(r, TRUE)
    \/ \E r \in inflight : fetchGoogleEmailsFinish(r)
    \/ \E k \in DOMAIN googleEmails : handleRemoveGoogleEmailStart(k)
    \/ \E r \in inflight : handleRemoveGoogleEmailGetUser(r)
    \/ \E r \in inflight : handleRemoveGoogleEmailRemote(r, TRUE)
    \/ \E r \in inflight : handleRemoveGoogleEmailFinish(r)

SpecToggleDelete == Init /\ [][NextToggleDelete]_vars

----------------------------------------------------------------------------
(* The credential tab alone, its handlers interleaved at their awaits.     *)

NextCred ==
    \/ fetchGoogleEmailsStart
    \/ \E r \in inflight : fetchGoogleEmailsGetUser(r)
    \/ \E r \in inflight, ok \in BOOLEAN : fetchGoogleEmailsRemote(r, ok)
    \/ \E r \in inflight : fetchGoogleEmailsFinish(r)
    \/ \E value \in EmailInputs : ChangeNewEmail(value)
    \/ \E value \in PasswordInputs : ChangeNewAppPassword(value)
    \/ handleAddGoogleEmailStart
    \/ \E r \in inflight : handleAddGoogleEmailGetUser(r)
    \/ \E r \in inflight, out \in InsertOutcomes : handleAddGoogleEmailRemote(r, out)
    \/ \E r \in inflight : handleAddGoogleEmailFinish(r)
    \/ \E k \in DOMAIN googleEmails : handleRemoveGoogleEmailStart(k)
    \/ \E r \in inflight : handleRemoveGoogleEmailGetUser(r)
    \/ \E r \in inflight, ok \in BOOLEAN : handleRemoveGoogleEmailRemote(r, ok)
    \/ \E r \in inflight : handleRemoveGoogleEmailFinish(r)

SpecCred == Init /\ [][NextCred]_vars

(* The credential list with add, removal and test interleaved: the new     *)
(* address is typed and submitted, the last credential of the list is      *)
(* removed and the first one tested, with up to maxPending of these        *)
(* waiting at one time and every answer of the remote insert.              *)

NextCredTest ==
    \/ fetchGoogleEmailsStart
    \/ \E r \in inflight : fetchGoogleEmailsGetUser(r)
    \/ \E r \in inflight : fetchGoogleEmailsRemote(r, TRUE)
    \/ \E r \in inflight : fetchGoogleEmailsFinish(r)
    \/ ChangeNewEmail(G3)
    \/ ChangeNewAppPassword(GoodPassword)
    \/ handleAddGoogleEmailStart
    \/ \E r \in inflight : handleAddGoogleEmailGetUser(r)
    \/ \E r \in inflight, out \in InsertOutcomes : handleAddGoogleEmailRemote(r, out)
    \/ \E r \in inflight : handleAddGoogleEmailFinish(r)
    \/ handleRemoveGoogleEmailStart(Len(googleEmails))
    \/ \E r \in inflight : handleRemoveGoogleEmailGetUser(r)
    \/ \E r \in inflight : handleRemoveGoogleEmailRemote(r, TRUE)
    \/ \E r \in inflight : handleRemoveGoogleEmailFinish(r)
    \/ handleTestEmailStart(1)
    \/ \E r \in inflight : handleTestEmailFinish(r)

SpecCredTest == Init /\ [][NextCredTest]_vars

----------------------------------------------------------------------------

(* The two format checks of the credential tab over families of strings:   *)
(* every local part of up to MaxLocal characters before every ending, and  *)
(* app passwords of every length around 16 with every character replaced.  *)

MaxLocal == 2
LocalAlphabet == {"a", "@", " ", "\r", "."}
LocalParts == UNION {[1..n -> LocalAlphabet] : n \in 0..MaxLocal}
Endings ==
    {GmailSuffix, <<>>, GmailSuffix \o <<"\n">>,
     <<"@", "g", "m", "a", "i", "l", "x", "c", "o", "m">>}
EmailStrings == {local \o ending : local \in LocalParts, ending \in Endings}

PasswordAlphabet == {"-", "Z"}
PasswordStrings ==
    {[GoodPassword EXCEPT ![i] = c] : i \in DOMAIN GoodPassword, c \in PasswordAlphabet}
    \cup {SubSeq(GoodPassword, 1, n) : n \in 0..Len(GoodPassword)}
    \cup {GoodPassword \o <<"a">>, GoodPassword \o <<"-">>}
    \cup {[i \in 1..16 |-> "p"], [i \in 1..16 |-> "7"],
          <<"A", "B", "C", "D", "E", "F", "G", "H", "I", "J", "K", "L", "M", "N", "O",
            "P">>,
          <<"q", "r", "s", "t", "u", "v", "w", "x", "y", "z", "2", "3", "4", "5", "6",
            "\r">>}

\* The format runs type into the form while the cache holds less than MaxCache
\* credentials.
MaxCache == 3
CacheNotFull == Len(googleEmails) < MaxCache

NextAddress ==
    \/ fetchGoogleEmailsStart
    \/ \E r \in inflight : fetchGoogleEmailsGetUser(r)
    \/ \E r \in inflight : fetchGoogleEmailsRemote(r, TRUE)
    \/ \E r \in inflight : fetchGoogleEmailsFinish(r)
    \/ \E value \in EmailStrings : CacheNotFull /\ ChangeNewEmail(value)
    \/ CacheNotFull /\ ChangeNewAppPassword(GoodPassword)
    \/ handleAddGoogleEmailStart
    \/ \E r \in inflight : handleAddGoogleEmailGetUser(r)
    \/ \E r \in inflight, out \in InsertOutcomes : handleAddGoogleEmailRemote(r, out)
    \/ \E r \in inflight : handleAddGoogleEmailFinish(r)

SpecAddress == InitSerial /\ [][NextAddress]_vars

NextPassword ==
    \/ fetchGoogleEmailsStart
    \/ \E r \in inflight : fetchGoogleEmailsGetUser(r)
    \/ \E r \in inflight : fetchGoogleEmailsRemote(r, TRUE)
    \/ \E r \in inflight : fetchGoogleEmailsFinish(r)
    \/ \E value \in {G1, G3} : CacheNotFull /\ ChangeNewEmail(value)
    \/ \E value \in PasswordStrings : CacheNotFull /\ ChangeNewAppPassword(value)
    \/ handleAddGoogleEmailStart
    \/ \E r \in inflight : handleAddGoogleEmailGetUser(r)
    \/ \E r \in inflight, out \in InsertOutcomes : handleAddGoogleEmailRemote(r, out)
    \/ \E r \in inflight : handleAddGoogleEmailFinish(r)

SpecPassword == InitSerial /\ [][NextPassword]_vars

----------------------------------------------------------------------------

(* The campaign list with the toggle interleaved at its await with the     *)
(* clicks that open, leave and save a draft.                               *)

NextToggle ==
    \/ fetchCampaignsStart
    \/ \E r \in inflight : fetchCampaignsGetUser(r)
    \/ \E r \in inflight, ok \in BOOLEAN : fetchCampaignsRemote(r, ok)
    \/ \E r \in inflight : fetchCampaignsFinish(r)
    \/ handleCreateCampaign
    \/ \E i \in DOMAIN campaigns : handleToggleActiveStart(i)
    \/ \E r \in inflight, ok \in BOOLEAN : handleToggleActiveRemote(r, ok)
    \/ \E r \in inflight : handleToggleActiveFinish(r)
    \/ \E i \in DOMAIN campaigns : handleCampaignClick(i)
    \/ Cancel
    \/ handleSaveCampaignStart
    \/ \E r \in inflight : handleSaveCampaignGetUser(r)
    \/ \E r \in inflight, ok \in BOOLEAN : handleSaveCampaignRemote(r, ok)
    \/ \E r \in inflight : handleSaveCampaignResume(r)

SpecToggle == Init /\ [][NextToggle]_vars

----------------------------------------------------------------------------

(* The credential tab with every remote call succeeding: the list is       *)
(* loaded, and every insert and delete the store executes succeeds.        *)

NextCredOk ==
    \/ fetchGoogleEmailsStart
    \/ \E r \in inflight : fetchGoogleEmailsGetUser(r)
    \/ \E r \in inflight : fetchGoogleEmailsRemote(r, TRUE)
    \/ \E r \in inflight : fetchGoogleEmailsFinish(r)
    \/ ChangeNewEmail(G3)
    \/ ChangeNewAppPassword(GoodPassword)
    \/ handleAddGoogleEmailStart
    \/ \E r \in inflight : handleAddGoogleEmailGetUser(r)
    \/ \E r \in inflight : handleAddGoogleEmailRemote(r, "ok")
    \/ \E r \in inflight : handleAddGoogleEmailFinish(r)
    \/ \E k \in DOMAIN googleEmails : handleRemoveGoogleEmailStart(k)
    \/ \E r \in inflight : handleRemoveGoogleEmailGetUser(r)
    \/ \E r \in inflight : handleRemoveGoogleEmailRemote(r, TRUE)
    \/ \E r \in inflight : handleRemoveGoogleEmailFinish(r)

SpecCredOk == Init /\ [][NextCredOk]_vars

----------------------------------------------------------------------------

(* The tests of the credential tab with removals, under the fairness the   *)
(* two-second timer of a test justifies: the timer of every suspended test *)
(* fires.                                                                  *)

NextTest ==
    \/ fetchGoogleEmailsStart
    \/ \E r \in inflight : fetchGoogleEmailsGetUser(r)
    \/ \E r \in inflight : fetchGoogleEmailsRemote(r, TRUE)
    \/ \E r \in inflight : fetchGoogleEmailsFinish(r)
    \/ \E k \in DOMAIN googleEmails : handleRemoveGoogleEmailStart(k)
    \/ \E r \in inflight : handleRemoveGoogleEmailGetUser(r)
    \/ \E r \in inflight, ok \in BOOLEAN : handleRemoveGoogleEmailRemote(r, ok)
    \/ \E r \in inflight : handleRemoveGoogleEmailFinish(r)
    \/ \E k \in DOMAIN googleEmails : handleTestEmailStart(k)
    \/ \E r \in inflight : handleTestEmailFinish(r)

SpecTest == Init /\ [][NextTest]_vars

SpecTestFair ==
    /\ Init
    /\ [][NextTest]_vars
    /\ \A n \in 1..MaxInflight :
          WF_vars(\E r \in inflight : r.n = n /\ handleTestEmailFinish(r))

----------------------------------------------------------------------------

(* The editor with its suspended removals interleaved: while the remote    *)
(* delete of a sender email or of a template is pending the user goes on   *)
(* typing a name, leaving the editor, opening the campaign again or        *)
(* pressing another X.                                                     *)

NextOverlap ==
    \/ fetchCampaignsStart
    \/ \E r \in inflight : fetchCampaignsGetUser(r)
    \/ \E r \in inflight : fetchCampaignsRemote(r, TRUE)
    \/ \E r \in inflight : fetchCampaignsFinish(r)
    \/ \E i \in DOMAIN campaigns : handleCampaignClick(i)
    \/ Cancel
    \/ \E name \in NameInputs : UpdateName(name)
    \/ \E j \in DOMAIN templates : handleRemoveTemplateStart(j)
    \/ \E r \in inflight : handleRemoveTemplateRemote(r, TRUE)
    \/ \E r \in inflight : handleRemoveTemplateFinish(r)
    \/ \E j \in 1..3 : handleRemoveEmailStart(j)
    \/ \E r \in inflight, ok \in BOOLEAN : handleRemoveEmailRemote(r, ok)
    \/ \E r \in inflight : handleRemoveEmailFinish(r)

SpecOverlap == Init /\ [][NextOverlap]_vars

(* The editor with its suspended saves interleaved: while a save is        *)
(* pending the user goes on typing a name, leaving the editor or pressing  *)
(* Save again; every remote call succeeds.                                 *)

NextDouble ==
    \/ fetchCampaignsStart
    \/ \E r \in inflight : fetchCampaignsGetUser(r)
    \/ \E r \in inflight : fetchCampaignsRemote(r, TRUE)
    \/ \E r \in inflight : fetchCampaignsFinish(r)
    \/ handleCreateCampaign
    \/ Cancel
    \/ \E name \in NameInputs : UpdateName(name)
    \/ handleSaveCampaignStart
    \/ \E r \in inflight : handleSaveCampaignGetUser(r)
    \/ \E r \in inflight : handleSaveCampaignRemote(r, TRUE)
    \/ \E r \in inflight : handleSaveCampaignResume(r)

SpecDouble == InitUpTo(MaxClockDouble, MaxInflight) /\ [][NextDouble]_vars

(* One campaign followed through several saves: the steps that create or   *)
(* open a draft, add a template and a sender email to it, remove a sender  *)
(* email, save the draft and toggle the saved campaign, with every outcome *)
(* of the save's remote calls, over a longer run of the clock.             *)

NextLong ==
    \/ fetchCampaignsStart
    \/ \E r \in inflight : fetchCampaignsGetUser(r)
    \/ \E r \in inflight, ok \in BOOLEAN : fetchCampaignsRemote(r, ok)
    \/ \E r \in inflight : fetchCampaignsFinish(r)
    \/ handleCreateCampaign
    \/ \E i \in DOMAIN campaigns : handleCampaignClick(i)
    \/ \E id \in {templates[1].id} : SelectTemplate(id)
    \/ handleAddTemplate
    \/ handleAddEmail(A1)
    \/ \E j \in 1..3 : handleRemoveEmailStart(j)
    \/ \E r \in inflight, ok \in BOOLEAN : handleRemoveEmailRemote(r, ok)
    \/ \E r \in inflight : handleRemoveEmailFinish(r)
    \/ handleSaveCampaignStart
    \/ \E r \in inflight : handleSaveCampaignGetUser(r)
    \/ \E r \in inflight, ok \in BOOLEAN : handleSaveCampaignRemote(r, ok)
    \/ \E r \in inflight : handleSaveCampaignResume(r)
    \/ \E i \in DOMAIN campaigns : handleToggleActiveStart(i)
    \/ \E r \in inflight : handleToggleActiveRemote(r, TRUE)
    \/ \E r \in inflight : handleToggleActiveFinish(r)

SpecLong == InitLong /\ [][NextLong]_vars

----------------------------------------------------------------------------
(* The operations that write to the remote store, in a session that may    *)
(* end at any moment.                                                      *)

NextSession ==
    \/ fetchCampaignsStart
    \/ \E r \in inflight : fetchCampaignsGetUser(r)
    \/ \E r \in inflight : fetchCampaignsRemote(r, TRUE)
    \/ \E r \in inflight : fetchCampaignsFinish(r)
    \/ fetchGoogleEmailsStart
    \/ \E r \in inflight : fetchGoogleEmailsGetUser(r)
    \/ \E r \in inflight : fetchGoogleEmailsRemote(r, TRUE)
    \/ \E r \in inflight : fetchGoogleEmailsFinish(r)
    \/ SessionExpires
    \/ handleCreateCampaign
    \/ \E i \in DOMAIN campaigns : handleCampaignClick(i)
    \/ handleSaveCampaignStart
    \/ \E r \in inflight : handleSaveCampaignGetUser(r)
    \/ \E r \in inflight : handleSaveCampaignRemote(r, TRUE)
    \/ \E r \in inflight : handleSaveCampaignResume(r)
    \/ \E i \in DOMAIN campaigns : handleToggleActiveStart(i)
    \/ \E r \in inflight : handleToggleActiveRemote(r, TRUE)
    \/ \E r \in inflight : handleToggleActiveFinish(r)
    \/ \E i \in DOMAIN campaigns : handleDeleteCampaignStart(i)
    \/ \E r \in inflight : handleDeleteCampaignRemote(r, TRUE)
    \/ \E r \in inflight : handleDeleteCampaignFinish(r)
    \/ \E j \in DOMAIN templates : handleRemoveTemplateStart(j)
    \/ \E r \in inflight : handleRemoveTemplateRemote(r, TRUE)
    \/ \E r \in inflight : handleRemoveTemplateFinish(r)
    \/ \E j \in 1..3 : handleRemoveEmailStart(j)
    \/ \E r \in inflight : handleRemoveEmailRemote(r, TRUE)
    \/ \E r \in inflight : handleRemoveEmailFinish(r)
    \/ ChangeNewEmail(G3)
    \/ ChangeNewAppPassword(GoodPassword)
    \/ handleAddGoogleEmailStart
    \/ \E r \in inflight : handleAddGoogleEmailGetUser(r)
    \/ \E r \in inflight : handleAddGoogleEmailRemote(r, "ok")
    \/ \E r \in inflight : handleAddGoogleEmailFinish(r)
    \/ \E k \in DOMAIN googleEmails : handleRemoveGoogleEmailStart(k)
    \/ \E r \in inflight : handleRemoveGoogleEmailGetUser(r)
    \/ \E r \in inflight : handleRemoveGoogleEmailRemote(r, TRUE)
    \/ \E r \in inflight : handleRemoveGoogleEmailFinish(r)

SpecSession == InitSerial /\ [][NextSession]_vars

----------------------------------------------------------------------------
(* The validator on its own: the remote store holds one campaign with      *)
(* arbitrary content, the page loads it, and the toggle applies            *)
(* validateCampaign to it.                                                 *)

TemplateListInputs ==
    {<<>>,
     <<[template |-> templates[1], type |-> "body"]>>,
     <<[template |-> templates[3], type |-> "attachment"]>>,
     <<[template |-> templates[3], type |-> "attachment"],
       [template |-> templates[1], type |-> "body"]>>,
     <<[template |-> templates[1], type |-> "body"],
       [template |-> templates[2], type |-> "body"]>>}

ValidatorInputs ==
    [id : {IdNames[1]},
     name : {"New Campaign"},
     isActive : BOOLEAN,
     city : {"", cities[1]},
     subjectLines : {<<>>, <<<<"H", "i">>>>},
     daysTillClose : {"NA"},
     templates : TemplateListInputs,
     emails : {<<>>, <<[address |-> G1, smtpProvider |-> "gmail",
                        sendingRate |-> Number(1440)]>>},
     lastModified : {0}]

InitValidate ==
    /\ user = TheUser
    /\ campaigns = <<>>
    /\ \E c \in ValidatorInputs :
          /\ dbCampaigns =
                {[id |-> c.id, user_id |-> TheUser, name |-> c.name,
                  is_active |-> c.isActive, city |-> c.city,
                  subject_lines |-> c.subjectLines,
                  days_till_close |-> c.daysTillClose, updated_at |-> c.lastModified]}
          /\ dbTemplates =
                [k \in DOMAIN c.templates |->
                    [campaign_id |-> c.id, template_id |-> c.templates[k].template.id,
                     template_type |-> c.templates[k].type]]
          /\ dbEmails =
                [k \in DOMAIN c.emails |->
                    [campaign_id |-> c.id, email_address |-> c.emails[k].address,
                     provider |-> c.emails[k].smtpProvider,
                     sending_rate |-> c.emails[k].sendingRate.int, updated_at |-> 0]]
    /\ dbGoogle = SeedGoogle
    /\ nextId = 2
    /\ clock = 0
    /\ horizon = MaxClock
    /\ maxPending = MaxPending
    /\ currentCampaign = Null
    /\ selectedTemplateId = ""
    /\ isLoading = TRUE
    /\ sesEmails = <<[address |-> A1, testing |-> FALSE]>>
    /\ googleEmails =
          [k \in DOMAIN SeedGoogle |->
              [address |-> SeedGoogle[k].address,
               appPassword |-> SeedGoogle[k].app_password, testing |-> FALSE]]
    /\ newEmail = <<>>
    /\ newAppPassword = <<>>
    /\ emailError = ""
    /\ passwordError = ""
    /\ gIsLoading = FALSE
    /\ lastAlert = ""
    /\ lastCalls = <<>>
    /\ inflight = {}

NextValidate ==
    \/ fetchCampaignsStart
    \/ \E r \in inflight : fetchCampaignsGetUser(r)
    \/ \E r \in inflight : fetchCampaignsRemote(r, TRUE)
    \/ \E r \in inflight : fetchCampaignsFinish(r)
    \/ handleToggleActiveStart(1)
    \/ \E r \in inflight, ok \in BOOLEAN : handleToggleActiveRemote(r, ok)
    \/ \E r \in inflight : handleToggleActiveFinish(r)

SpecValidate == InitValidate /\ [][NextValidate]_vars

----------------------------------------------------------------------------
(* Claims.                                                                 *)

SenderReason == "At least one sender email is required"
CityReason == "A target city must be selected"
SubjectReason == "At least one subject line is required"
BodyReason == "A body template is required"
ValidationReasons == {SenderReason, CityReason, SubjectReason, BodyReason}

BodyCount(ts) == Cardinality({i \in DOMAIN ts : ts[i].type = "body"})

\* C1: validateCampaign(c) is valid iff c has at least one sender email, a
\* non-empty city, at least one subject line and exactly one body-role template;
\* a campaign holding two body-role templates is not valid.
C1_ValidIffExactlyOneBody ==
    \A i \in DOMAIN campaigns :
        validateCampaign(campaigns[i]).valid <=>
            /\ Len(campaigns[i].emails) >= 1
            /\ campaigns[i].city # ""
            /\ Len(campaigns[i].subjectLines) >= 1
            /\ BodyCount(campaigns[i].templates) = 1

\* The first failing condition of a campaign, in the order senders, city, subject
\* lines, body template.
FirstFailing(c) ==
    IF Len(c.emails) = 0 THEN SenderReason
    ELSE IF c.city = "" THEN CityReason
    ELSE IF Len(c.subjectLines) = 0 THEN SubjectReason
    ELSE IF BodyCount(c.templates) = 0 THEN BodyReason
    ELSE ""

\* C8: validateCampaign returns the reason of the first failing condition in the
\* order senders, city, subject lines, body template, and that is the reason a
\* rejected activation shows.
C8_FirstFailingReason ==
    /\ \A i \in DOMAIN campaigns :
          LET v == validateCampaign(campaigns[i]) IN
          /\ v.valid <=> FirstFailing(campaigns[i]) = ""
          /\ ~v.valid => v.reason = FirstFailing(campaigns[i])
    /\ lastAlert \in ValidationReasons =>
          /\ lastAlert = FirstFailing(campaigns[1])
          /\ ~campaigns[1].isActive

\* C8 witness: an activation was rejected with the city reason although the subject
\* lines and the body template are missing too.
C8_Witness ==
    /\ lastAlert = CityReason
    /\ Len(campaigns[1].emails) > 0
    /\ Len(campaigns[1].subjectLines) = 0
    /\ ~HasBody(campaigns[1].templates)

C3_AtMostOneBody ==
    /\ currentCampaign # Null => BodyCount(currentCampaign.templates) <= 1
    /\ \A r \in dbCampaigns :
          Cardinality({k \in DOMAIN dbTemplates :
                          /\ dbTemplates[k].campaign_id = r.id
                          /\ dbTemplates[k].template_type = "body"}) <= 1

OpenRejected == "Cannot edit an active campaign. Please deactivate it first."

\* C4: a click on an active campaign is rejected: the editor stays in Browsing, the
\* rejection message is shown and neither the list nor the remote store changes; a
\* click on an inactive campaign makes that campaign the draft.
C4_OpenActiveRejected ==
    [][\A i \in DOMAIN campaigns :
          handleCampaignClick(i) =>
              /\ campaigns[i].isActive =>
                    /\ currentCampaign' = Null
                    /\ lastAlert' = OpenRejected
              /\ ~campaigns[i].isActive =>
                    /\ currentCampaign' = campaigns[i]
                    /\ lastAlert' = ""
              /\ campaigns' = campaigns
              /\ lastCalls' = <<>>
              /\ UNCHANGED <<dbVars, dbGoogle>>]_vars

\* C4 witness: the click on an active campaign has just been rejected.
C4_Witness ==
    /\ lastAlert = OpenRejected
    /\ currentCampaign = Null
    /\ \E i \in DOMAIN campaigns : campaigns[i].isActive

\* C5: the city of a remote campaign row never changes, and the city of a draft with
\* a non-empty id never changes and is the city of its remote row.
C5_CityImmutable ==
    [][/\ \A r \in dbCampaigns : \A q \in dbCampaigns' : q.id = r.id => q.city = r.city
       /\ (currentCampaign # Null /\ currentCampaign' # Null) =>
             ((currentCampaign.id # EmptyId /\ currentCampaign'.id = currentCampaign.id)
                => currentCampaign'.city = currentCampaign.city)
       /\ currentCampaign' # Null =>
             \A q \in dbCampaigns' :
                 q.id = currentCampaign'.id => q.city = currentCampaign'.city]_vars

\* C5 witness: a persisted campaign was opened, edited and saved by an update.
C5_Witness ==
    /\ Len(lastCalls) >= 2
    /\ lastCalls[2] = "campaigns.update"
    /\ lastAlert = ""
    /\ \E r \in dbCampaigns : r.id = IdNames[1] /\ r.updated_at = 2 /\ r.name = "Promo"

AvailableAddresses == {e.address : e \in Range(availableEmails(sesEmails, googleEmails))}

\* C6: every sender email of every campaign in the list references an address
\* present in the Credential Store.
C6_SendersInCredentialStore ==
    \A i \in DOMAIN campaigns :
        \A k \in DOMAIN campaigns[i].emails :
            campaigns[i].emails[k].address \in AvailableAddresses

\* The campaign c without the sender entries of that address.
WithoutSender(c, address) ==
    [c EXCEPT !.emails = SelectSeq(c.emails, LAMBDA e : e.address # address)]

\* C7: a credential removal takes the removed address out of every campaign's sender
\* list and changes nothing else in the list; it issues no remote call besides its
\* own, and the campaign tables are unchanged.
C7_RemovalPrunesOnlyThatAddress ==
    [][\A r \in inflight :
          r.op = "remove" =>
             /\ (handleRemoveGoogleEmailFinish(r) /\ r.result = "ok") =>
                   /\ campaigns' =
                         [i \in DOMAIN campaigns |-> WithoutSender(campaigns[i], r.address)]
                   /\ lastCalls' = <<"auth.getUser", "google_smtp_emails.delete">>
             /\ (handleRemoveGoogleEmailGetUser(r)
                    \/ handleRemoveGoogleEmailFinish(r)
                    \/ \E ok \in BOOLEAN : handleRemoveGoogleEmailRemote(r, ok)) =>
                   UNCHANGED dbVars]_vars

\* C9: create moves the editor from Browsing to Editing with a fresh draft: empty
\* id, inactive, the first city of the fixed list, daysTillClose "NA", no templates,
\* sender emails or subject lines; the campaign list and the remote store are
\* unchanged and no remote call is issued.
C9_CreateFreshDraft ==
    [][(currentCampaign = Null /\ currentCampaign' # Null
            /\ currentCampaign'.id = EmptyId) =>
          /\ Browsing
          /\ ~isLoading'
          /\ ~currentCampaign'.isActive
          /\ currentCampaign'.city = cities[1]
          /\ currentCampaign'.daysTillClose = "NA"
          /\ currentCampaign'.templates = <<>>
          /\ currentCampaign'.emails = <<>>
          /\ currentCampaign'.subjectLines = <<>>
          /\ campaigns' = campaigns
          /\ lastCalls' = <<>>
          /\ UNCHANGED <<dbVars, dbGoogle>>]_vars

\* C9 witness: a fresh draft is open beside a loaded, non-empty list.
C9_Witness ==
    /\ Editing
    /\ currentCampaign.id = EmptyId
    /\ currentCampaign.lastModified = clock
    /\ currentCampaign.templates = <<>>
    /\ currentCampaign.emails = <<>>
    /\ currentCampaign.subjectLines = <<>>
    /\ campaigns # <<>>
    /\ lastAlert = ""

\* The save r returns from its fetchCampaigns in this step, and every remote call
\* it issued has succeeded.
SaveSucceeds(r) ==
    /\ r.op = "save"
    /\ r.failed = {}
    /\ r.result = "ok"
    /\ fetchCampaignsFinish(r)

\* The campaign row write of the save r succeeds in this step: a new row with a new
\* id when the draft's id is empty, otherwise the row of that id updated, every
\* other row as it was.
SaveWritesRow(r) ==
    (r.op = "save" /\ r.pc = "row" /\ handleSaveCampaignRemote(r, TRUE)) =>
        LET oldIds == {q.id : q \in dbCampaigns}
            newIds == {q.id : q \in dbCampaigns'}
        IN /\ r.snap.id = EmptyId =>
                 /\ r.calls[2] = "campaigns.insert"
                 /\ dbCampaigns \subseteq dbCampaigns'
                 /\ Cardinality(dbCampaigns') = Cardinality(dbCampaigns) + 1
                 /\ Cardinality(newIds) = Cardinality(oldIds) + 1
           /\ r.snap.id # EmptyId =>
                 /\ r.calls[2] = "campaigns.update"
                 /\ newIds = oldIds
                 /\ Cardinality(dbCampaigns') = Cardinality(dbCampaigns)
                 /\ \A q \in dbCampaigns : q.id # r.snap.id => q \in dbCampaigns'

\* A remote call of the save r leaves the associations of the other campaigns as
\* they are.
SaveKeepsOtherAssociations(r) ==
    \A ok \in BOOLEAN :
        handleSaveCampaignRemote(r, ok) =>
            \E q \in inflight' :
               /\ q.n = r.n
               /\ SelectSeq(dbTemplates', LAMBDA ct : ct.campaign_id # q.campaignId)
                     = SelectSeq(dbTemplates, LAMBDA ct : ct.campaign_id # q.campaignId)
               /\ SelectSeq(dbEmails', LAMBDA ce : ce.campaign_id # q.campaignId)
                     = SelectSeq(dbEmails, LAMBDA ce : ce.campaign_id # q.campaignId)

\* C10: a save whose remote calls all succeed inserts one new campaign row iff the
\* draft's id is empty and otherwise updates the row of that id; when it returns,
\* the remote template and sender-email associations of the saved campaign are
\* exactly the draft's, in the draft's order, the list is the refreshed content of
\* the remote store, and the editor is in Browsing with no draft; the associations
\* of the other campaigns are untouched by every call of the save.
C10_SaveReplacesAssociations ==
    [][\A r \in inflight :
          /\ SaveWritesRow(r)
          /\ SaveKeepsOtherAssociations(r)
          /\ SaveSucceeds(r) =>
                LET d == r.snap
                    id == r.campaignId
                    cts == SelectSeq(dbTemplates', LAMBDA ct : ct.campaign_id = id)
                    ces == SelectSeq(dbEmails', LAMBDA ce : ce.campaign_id = id)
                IN /\ d.id # EmptyId => id = d.id
                   /\ \E q \in dbCampaigns' :
                         /\ q.id = id
                         /\ q.name = d.name
                         /\ q.subject_lines = d.subjectLines
                         /\ q.days_till_close = d.daysTillClose
                   /\ [k \in DOMAIN cts |-> <<cts[k].template_id, cts[k].template_type>>]
                         = [k \in DOMAIN d.templates |->
                               <<d.templates[k].template.id, d.templates[k].type>>]
                   /\ [k \in DOMAIN ces |-> <<ces[k].email_address, ces[k].provider>>]
                         = [k \in DOMAIN d.emails |->
                               <<d.emails[k].address, d.emails[k].smtpProvider>>]
                   /\ \A k \in DOMAIN ces :
                         ces[k].sending_rate =
                             IF d.emails[k].sendingRate \in {NaN, Number(0)} THEN 1440
                             ELSE d.emails[k].sendingRate.int
                   /\ campaigns' =
                         transformedCampaigns(dbCampaigns', dbTemplates', dbEmails', user)
                   /\ currentCampaign' = Null
                   /\ ~isLoading']_vars

\* C10 witness: a persisted campaign was saved after a body template was added to
\* its draft, and every remote call of the save succeeded.
C10_Witness ==
    /\ lastCalls = <<"auth.getUser", "campaigns.update", "campaign_templates.delete",
                     "campaign_emails.delete", "campaign_templates.insert",
                     "campaign_emails.insert", "auth.getUser", "campaigns.select">>
    /\ lastAlert = ""
    /\ currentCampaign = Null
    /\ \E i \in DOMAIN campaigns :
          /\ Len(campaigns[i].templates) = 2
          /\ campaigns[i].templates[1].type = "attachment"
          /\ campaigns[i].templates[2].type = "body"
          /\ Len(campaigns[i].emails) = 2
          /\ campaigns[i].lastModified = clock

\* C11: save is not gated by the validator: no click in the editor is answered with
\* a validation reason, every save of an authenticated user issues the campaign row
\* write, and a save of an invalid draft whose remote calls all succeed persists it
\* as it is (the refreshed list holds it, inactive and still invalid) and closes
\* the editor; the persisted campaign can be activated once it has become valid.
C11_SaveNotGated ==
    [][/\ Editing => lastAlert' \notin ValidationReasons
       /\ \A r \in inflight :
             /\ (handleSaveCampaignGetUser(r) /\ user # NoUser) =>
                   \E q \in inflight' :
                      /\ q.n = r.n
                      /\ q.pc = "row"
                      /\ q.calls[2] \in {"campaigns.insert", "campaigns.update"}
             /\ (SaveSucceeds(r) /\ ~validateCampaign(r.snap).valid) =>
                   LET d == r.snap IN
                   /\ currentCampaign' = Null
                   /\ \E i \in DOMAIN campaigns' :
                         /\ d.id # EmptyId => campaigns'[i].id = d.id
                         /\ campaigns'[i].name = d.name
                         /\ campaigns'[i].city = d.city
                         /\ campaigns'[i].subjectLines = d.subjectLines
                         /\ campaigns'[i].templates = d.templates
                         /\ Len(campaigns'[i].emails) = Len(d.emails)
                         /\ campaigns'[i].lastModified = r.now
                         /\ ~campaigns'[i].isActive
                         /\ ~validateCampaign(campaigns'[i]).valid]_vars

\* C11 witness: the campaign that was persisted without a body template has been
\* given one in the editor, saved and then activated.
C11_Witness ==
    /\ lastCalls = <<"campaigns.update">>
    /\ lastAlert = ""
    /\ \E i \in DOMAIN campaigns :
          /\ campaigns[i].name = "Promo"
          /\ campaigns[i].isActive
          /\ campaigns[i].lastModified = clock
          /\ Len(campaigns[i].templates) = 2
          /\ campaigns[i].templates[1].type = "attachment"
          /\ \E r \in dbCampaigns : r.id = campaigns[i].id /\ r.is_active

\* The in-memory state of the two components: campaign list, draft and editor
\* state, credential lists.
memVars ==
    <<campaigns, currentCampaign, selectedTemplateId, isLoading, sesEmails,
      googleEmails>>

\* A failure was surfaced: an alert, or the inline error of the credential form.
ErrorSurfaced == lastAlert' # "" \/ emailError' # ""

\* The suspended invocation r returns in this step.
Returns(r) == \A q \in inflight' : q.n # r.n

\* A save, a sender removal or a template removal that returns after one of its
\* remote calls failed has surfaced an error and leaves the in-memory state as it
\* was; no step before its return changes that state.
PageFailureKeepsState ==
    \A r \in inflight :
        r.op \in {"save", "removeEmail", "removeTemplate"} =>
            /\ (Returns(r) /\ r.failed # {}) => ErrorSurfaced /\ UNCHANGED memVars
            /\ (~Returns(r) /\ inflight' # inflight) => UNCHANGED memVars

\* The same for toggle active, delete campaign, add credential and remove
\* credential, whose one remote call is answered when they resume.
OtherFailuresKeepState ==
    \A r \in inflight :
        r.op \in {"toggle", "delete", "add", "remove"} =>
            /\ (Returns(r) /\ r.pc = "replied" /\ r.result # "ok") =>
                  ErrorSurfaced /\ UNCHANGED memVars
            /\ (~Returns(r) /\ inflight' # inflight) => UNCHANGED memVars

\* C12: whenever a remote call issued by save, toggle active, delete campaign,
\* remove sender email, remove template, add credential or remove credential fails,
\* an error is surfaced and campaign list, draft, editor state and credential lists
\* are as before the operation; this includes the association deletes of save.
C12_FailureLeavesStateUnchanged ==
    [][PageFailureKeepsState /\ OtherFailuresKeepState]_vars

\* The last remote call of the last handler was an association insert.
EndedAtAssociationInsert ==
    /\ lastCalls # <<>>
    /\ lastCalls[Len(lastCalls)] \in
          {"campaign_templates.insert", "campaign_emails.insert"}

\* A save whose row write and association deletes succeed and whose template or
\* sender-email insert fails: the written row stays, the campaign has no sender
\* rows and no template rows but those this save inserted, nothing is issued after
\* the failed insert, and the editor keeps the draft as it was.
PartialSaveLeft ==
    \A r \in inflight :
        (r.op = "save" /\ r.pc \in {"insT", "insE"} /\ r.failed = {r.pc}
            /\ handleSaveCampaignResume(r)) =>
            LET d == r.snap
                id == r.campaignId
                cts == SelectSeq(dbTemplates', LAMBDA ct : ct.campaign_id = id)
            IN /\ \E q \in dbCampaigns' :
                     /\ q.id = id
                     /\ q.name = d.name
                     /\ q.subject_lines = d.subjectLines
                     /\ q.updated_at = r.now
               /\ SelectSeq(dbEmails', LAMBDA ce : ce.campaign_id = id) = <<>>
               /\ IF r.pc = "insE" THEN cts = TemplateRows(id, d) ELSE cts = <<>>
               /\ lastCalls'[Len(lastCalls')] = CallName(r.op, r.pc, d)
               /\ "campaigns.delete" \notin Range(lastCalls')
               /\ lastAlert' = SaveFailed
               /\ currentCampaign' = d
               /\ campaigns' = campaigns
               /\ ~isLoading'

\* The save that follows such a failure, all of its calls succeeding, writes the
\* row the failed save wrote: no further campaign row appears, and that row and
\* its associations are the draft's.
ResaveRepairs ==
    (lastAlert = SaveFailed /\ EndedAtAssociationInsert) =>
        \A r \in inflight :
            /\ (r.op = "save" /\ r.pc = "row" /\ handleSaveCampaignRemote(r, TRUE)) =>
                  /\ {q.id : q \in dbCampaigns'} = {q.id : q \in dbCampaigns}
                  /\ \E q \in dbCampaigns' :
                        /\ q.updated_at = r.now
                        /\ q.name = r.snap.name
                        /\ q.subject_lines = r.snap.subjectLines
            /\ SaveSucceeds(r) =>
                  /\ SelectSeq(dbTemplates', LAMBDA ct : ct.campaign_id = r.campaignId)
                        = TemplateRows(r.campaignId, r.snap)
                  /\ SelectSeq(dbEmails', LAMBDA ce : ce.campaign_id = r.campaignId)
                        = EmailRows(r.campaignId, r.snap, r.now)
                  /\ currentCampaign' = Null

\* C13: save is not transactional: after an association insert failed behind a
\* successful row write and successful association deletes, the written row stays
\* with its old associations deleted, no compensating call is issued and the editor
\* keeps the draft; a following successful save brings the remote store in line with
\* the draft.
C13_PartialSaveThenResave ==
    [][PartialSaveLeft /\ ResaveRepairs]_vars

\* A step of an operation that changes state: the auth.getUser of a save, of an
\* add or of a removal of a credential answers, or a removal of a sender email or
\* of a template of a persisted draft, a toggle or a delete is started.
StateChangingStep ==
    \/ \E r \in inflight :
          \/ handleSaveCampaignGetUser(r)
          \/ handleAddGoogleEmailGetUser(r)
          \/ handleRemoveGoogleEmailGetUser(r)
    \/ \E j \in 1..3 :
          /\ currentCampaign # Null
          /\ currentCampaign.id # EmptyId
          /\ handleRemoveEmailStart(j) \/ handleRemoveTemplateStart(j)
    \/ \E i \in DOMAIN campaigns :
          handleToggleActiveStart(i) \/ handleDeleteCampaignStart(i)

\* C14: with no authenticated user every state-changing operation aborts: it issues
\* no write to the remote store (at most the auth.getUser read) and leaves the
\* remote store and the in-memory state unchanged.
C14_NoUserAborts ==
    [][(user = NoUser /\ StateChangingStep) =>
          /\ inflight' \subseteq inflight
          /\ inflight' # inflight => Range(lastCalls') \subseteq {"auth.getUser"}
          /\ UNCHANGED <<dbVars, dbGoogle, memVars>>]_vars

AlreadyAdded == "This template has already been added to the campaign."
SecondBody ==
    "Only one HTML template can be used as the email body. Please remove the existing body template first."

TemplateIds(c) == {c.templates[j].template.id : j \in DOMAIN c.templates}

\* Add Template with a template that is already in the draft, or with an html
\* template while the draft has a body, shows a message and leaves the draft and
\* everything else as it was; any other template is appended.
AddTemplateRejects ==
    handleAddTemplate =>
        LET template == TemplateById(selectedTemplateId)
            present == template.id \in TemplateIds(currentCampaign)
            second == template.format = "html" /\ BodyCount(currentCampaign.templates) > 0
        IN /\ (present \/ second) =>
                 /\ lastAlert' = (IF present THEN AlreadyAdded ELSE SecondBody)
                 /\ currentCampaign' = currentCampaign
                 /\ lastCalls' = <<>>
                 /\ UNCHANGED <<campaigns, selectedTemplateId, clock, dbVars>>
           /\ ~(present \/ second) =>
                 /\ lastAlert' = ""
                 /\ Len(currentCampaign'.templates) = Len(currentCampaign.templates) + 1
                 /\ currentCampaign'.templates[Len(currentCampaign'.templates)].template
                       = template

\* No template id appears twice in the draft's template list.
DraftTemplatesDistinct ==
    currentCampaign # Null =>
        Cardinality(TemplateIds(currentCampaign)) = Len(currentCampaign.templates)

\* C15: adding a template that is already in the draft, or a second body-role
\* template, is rejected with a message and leaves the draft unchanged in every
\* field; consequently no template id ever appears twice in the draft.
C15_AddTemplateRejected ==
    [][AddTemplateRejects /\ DraftTemplatesDistinct']_vars

\* C16: the role stored with a template added to the draft is body iff the
\* template's format is html and attachment otherwise, and no operation on the
\* draft changes the role of a template that is already in it.
C16_RoleFromFormat ==
    [][(currentCampaign # Null /\ currentCampaign' # Null) =>
          \A k \in DOMAIN currentCampaign'.templates :
              LET t == currentCampaign'.templates[k] IN
              IF t.template.id \in TemplateIds(currentCampaign)
              THEN \E j \in DOMAIN currentCampaign.templates :
                      currentCampaign.templates[j] = t
              ELSE t.type = (IF t.template.format = "html" THEN "body"
                             ELSE "attachment")]_vars

\* C16 witness: a template of another format than html has been added behind the
\* body template of the draft.
C16_Witness ==
    /\ currentCampaign # Null
    /\ currentCampaign.lastModified = clock
    /\ Len(currentCampaign.templates) = 2
    /\ currentCampaign.templates[1].type = "body"
    /\ currentCampaign.templates[2].template.format # "html"
    /\ currentCampaign.templates[2].type = "attachment"
    /\ selectedTemplateId = ""
    /\ lastAlert = ""

EmailAddresses(c) == {c.emails[j].address : j \in DOMAIN c.emails}

\* C17: a sender email whose address is not yet in the draft is appended with rate
\* 1440, the other entries staying as they are, and the select offers no address
\* that is already there; hence the draft's sender list never holds an address
\* twice.
C17_AddEmailOnce ==
    [][/\ \A address \in {A1, G1, G2} :
             handleAddEmail(address) =>
                 /\ address \notin EmailAddresses(currentCampaign)
                 /\ currentCampaign'.emails =
                       Append(currentCampaign.emails,
                              [address |-> address,
                               smtpProvider |-> IF address = A1 THEN "amazon"
                                                ELSE "gmail",
                               sendingRate |-> Number(1440)])
       /\ currentCampaign' # Null =>
             Cardinality(EmailAddresses(currentCampaign'))
                 = Len(currentCampaign'.emails)]_vars

MaxRate == 1440

\* The number a text typed into the rate field stands for.
TypedRate(value) ==
    IF value = <<"0">> THEN Number(0)
    ELSE IF value = <<"2", "0", "0", "0">> THEN Number(2000)
    ELSE NaN

\* A rate update changes the rate of the entries with the addressed address only
\* and issues no remote call.
RateUpdateIsLocal ==
    currentCampaign # Null =>
        \A j \in DOMAIN currentCampaign.emails, value \in RateInputs :
            handleUpdateEmailRate(j, value) =>
                /\ lastCalls' = <<>>
                /\ UNCHANGED <<dbVars, campaigns>>
                /\ Len(currentCampaign'.emails) = Len(currentCampaign.emails)
                /\ \A k \in DOMAIN currentCampaign.emails :
                      LET old == currentCampaign.emails[k]
                          new == currentCampaign'.emails[k]
                      IN IF old.address = currentCampaign.emails[j].address
                         THEN new = [old EXCEPT !.sendingRate = TypedRate(value)]
                         ELSE new = old

\* C18: the rate of every sender email of the draft and every sending_rate in the
\* remote store is an integer in 1..1440, and a rate update changes only the rate of
\* the addressed entry and issues no remote call.
C18_RateInRange ==
    [][/\ RateUpdateIsLocal
       /\ currentCampaign' # Null =>
             \A k \in DOMAIN currentCampaign'.emails :
                 /\ ~currentCampaign'.emails[k].sendingRate.nan
                 /\ currentCampaign'.emails[k].sendingRate.int \in 1..MaxRate
       /\ \A k \in DOMAIN dbEmails' : dbEmails'[k].sending_rate \in 1..MaxRate]_vars

RemoveEmailFailed == "Failed to remove email. Please try again."

DeleteFailed == "Failed to delete campaign. Please try again."

\* C20: deleting a campaign, active or not: the click issues the remote delete;
\* after a successful remote delete the campaign is absent from the remote store and,
\* when the handler has resumed, from the list, and every other campaign of the list
\* and every other row is unchanged; after a failed remote delete list and store are
\* unchanged and the failure is shown.
C20_DeleteUnconditional ==
    [][/\ \A i \in DOMAIN campaigns :
             handleDeleteCampaignStart(i) =>
                /\ \E r \in inflight' \ inflight :
                      /\ r.op = "delete"
                      /\ r.campaignId = campaigns[i].id
                      /\ r.calls = <<"campaigns.delete">>
                /\ lastAlert' = lastAlert
                /\ UNCHANGED <<dbVars, campaigns>>
       /\ \A r \in inflight :
             r.op = "delete" =>
                /\ handleDeleteCampaignRemote(r, TRUE) =>
                      /\ dbCampaigns' = {row \in dbCampaigns : row.id # r.campaignId}
                      /\ campaigns' = campaigns
                /\ handleDeleteCampaignRemote(r, FALSE) => UNCHANGED <<dbVars, campaigns>>
                /\ (handleDeleteCampaignFinish(r) /\ r.result = "ok") =>
                      /\ lastCalls' = <<"campaigns.delete">>
                      /\ lastAlert' = ""
                      /\ campaigns' = SelectSeq(campaigns, LAMBDA c : c.id # r.campaignId)
                      /\ \A row \in dbCampaigns' : row.id # r.campaignId
                      /\ UNCHANGED dbVars
                /\ (handleDeleteCampaignFinish(r) /\ r.result = "error") =>
                      /\ lastCalls' = <<"campaigns.delete">>
                      /\ lastAlert' = DeleteFailed
                      /\ UNCHANGED <<dbVars, campaigns>>]_vars

\* C20 witness: the remote row of a campaign that the list shows as active has
\* been deleted, and its handleDeleteCampaign is about to resume.
C20_Witness ==
    \E r \in inflight :
       /\ r.op = "delete"
       /\ r.result = "ok"
       /\ \A row \in dbCampaigns : row.id # r.campaignId
       /\ \E i \in DOMAIN campaigns :
             campaigns[i].id = r.campaignId /\ campaigns[i].isActive

\* C21: Cancel discards the draft and returns to Browsing with the list, the remote
\* tables and the credentials as they were and without a remote call; and no step
\* that stays in Editing with the same credentials changes the list, so that the
\* list entry of the open campaign shows none of the draft's edits after Cancel.
C21_CancelDiscardsDraft ==
    [][/\ Cancel =>
             /\ currentCampaign' = Null
             /\ ~isLoading'
             /\ campaigns' = campaigns
             /\ lastCalls' = <<>>
             /\ UNCHANGED <<dbVars, credVars>>
       /\ (Editing /\ currentCampaign' # Null /\ UNCHANGED <<sesEmails, googleEmails>>) =>
             campaigns' = campaigns]_vars

\* C21 witness: back in Browsing after Cancel, the list entry of a campaign still
\* shows a sender whose remote row a removal in the draft has deleted.
C21_Witness ==
    /\ Browsing
    /\ lastCalls = <<>>
    /\ lastAlert = ""
    /\ \E i \in DOMAIN campaigns :
          \E j \in DOMAIN campaigns[i].emails :
             \A k \in DOMAIN dbEmails :
                ~(dbEmails[k].campaign_id = campaigns[i].id
                  /\ dbEmails[k].email_address = campaigns[i].emails[j].address)

\* No two entries of the list have the same address.
DistinctAddresses(list) ==
    \A j, k \in DOMAIN list : list[j].address = list[k].address => j = k

\* C23: the cached Google credential list never holds an address twice, however
\* add, remove and test and their pending remote calls interleave.
C23_CacheAddressesUnique == DistinctAddresses(googleEmails)

\* C23 witness: the form was submitted twice with one address; the first insert
\* succeeded and its address is in the cache once, the second was refused by the
\* remote store and its invocation has not resumed yet, while a test started
\* after a removal is running.
C23_Witness ==
    /\ \E r \in inflight :
          /\ r.op = "add"
          /\ r.result = "23505"
          /\ \A k \in DOMAIN r.snap : r.snap[k].address # r.address
          /\ \E k \in DOMAIN googleEmails : googleEmails[k].address = r.address
    /\ \E q \in inflight : q.op = "test"
    /\ \A k \in DOMAIN googleEmails : googleEmails[k].address # G2

\* One or more characters that are neither "@" nor whitespace, then "@gmail.com".
MatchesGmail(s) ==
    \E n \in 1..Len(s) :
       /\ \A i \in 1..n : s[i] # "@" /\ s[i] \notin Whitespace
       /\ SubSeq(s, n + 1, Len(s)) = GmailSuffix

\* The credentials submitted, stored remotely or cached.
KnownAddresses ==
    {r.address : r \in {q \in inflight : q.op = "add"}}
    \cup {dbGoogle[k].address : k \in DOMAIN dbGoogle}
    \cup {googleEmails[k].address : k \in DOMAIN googleEmails}

InvalidAddress == "Please enter a valid Gmail address"

\* C25: the address check accepts a string iff it is a non-empty run of characters
\* other than "@" and whitespace followed by exactly "@gmail.com"; a submit with a
\* rejected address shows the address error and starts no request, and no
\* credential submitted, stored or cached has a rejected address.
C25_AddressFormat ==
    /\ [](\A s \in KnownAddresses : MatchesGmail(s))
    /\ [][handleAddGoogleEmailStart =>
             /\ (emailError' = InvalidAddress) <=> ~MatchesGmail(newEmail)
             /\ ~MatchesGmail(newEmail) =>
                   UNCHANGED <<inflight, googleEmails, dbGoogle>>]_vars

\* C25 witness: an address with a two-character local part has gone through the
\* check, the remote insert and into the cache; the last submit was refused.
C25_Witness ==
    /\ emailError = InvalidAddress
    /\ \E k \in DOMAIN googleEmails :
          Len(googleEmails[k].address) = Len(GmailSuffix) + MaxLocal

\* Exactly 16 characters, all of them letters or digits.
SixteenAlphanumeric(p) == Len(p) = 16 /\ \A i \in 1..Len(p) : p[i] \in AlphaNumeric

\* The app passwords submitted, stored remotely or cached.
KnownSecrets ==
    {r.secret : r \in {q \in inflight : q.op = "add"}}
    \cup {dbGoogle[k].app_password : k \in DOMAIN dbGoogle}
    \cup {googleEmails[k].appPassword : k \in DOMAIN googleEmails}

InvalidPassword == "App password must be 16 characters long"

\* C26: the app password check accepts a string iff it has exactly 16 characters,
\* all alphanumeric; a submit with a rejected password shows the password error
\* and starts no request, and no credential submitted, stored or cached has a
\* rejected password.
C26_PasswordFormat ==
    /\ [](\A p \in KnownSecrets : SixteenAlphanumeric(p))
    /\ [][(handleAddGoogleEmailStart /\ validateEmail(newEmail)) =>
             /\ (passwordError' = InvalidPassword) <=> ~SixteenAlphanumeric(newAppPassword)
             /\ ~SixteenAlphanumeric(newAppPassword) =>
                   UNCHANGED <<inflight, googleEmails, dbGoogle>>]_vars

\* C26 witness: a password with a capital letter in it has gone through the check
\* and the remote insert; a submit made since, with a rejected password, was
\* refused.
C26_Witness ==
    /\ passwordError = InvalidPassword
    /\ \E k \in DOMAIN dbGoogle :
          /\ dbGoogle[k].address = G3
          /\ dbGoogle[k].app_password # GoodPassword

AlreadyInList == "This email is already in the list"
AlreadyRegistered == "This email is already registered"
AddFailed == "Failed to add email. Please try again."

\* The credential a suspended add carries is the last entry of the list.
AppendedLast(list, r) ==
    /\ list # <<>>
    /\ list[Len(list)].address = r.address
    /\ list[Len(list)].appPassword = r.secret

\* C22: a submit checks the address format, then the password format, then the
\* cached list, and a submit that fails one of them shows that check's error and
\* issues no request; no step before the reply of the insert touches the cache; a
\* resumed add appends its credential iff the insert succeeded, reports code 23505
\* as "already registered", any other failure by an alert, and leaves the cache
\* unchanged in both.
C22_AddChecksInOrder ==
    [][/\ handleAddGoogleEmailStart =>
             LET e == newEmail
                 p == newAppPassword
                 cached == \E k \in DOMAIN googleEmails : googleEmails[k].address = e
                 rejected == ~validateEmail(e) \/ ~validateAppPassword(p) \/ cached
             IN /\ emailError' =
                      IF ~validateEmail(e) THEN InvalidAddress
                      ELSE IF validateAppPassword(p) /\ cached THEN AlreadyInList
                      ELSE emailError
                /\ passwordError' =
                      IF validateEmail(e) /\ ~validateAppPassword(p)
                      THEN InvalidPassword ELSE passwordError
                /\ UNCHANGED <<googleEmails, dbGoogle>>
                /\ IF rejected THEN inflight' = inflight /\ lastCalls' = <<>>
                   ELSE \E r \in inflight' \ inflight :
                           /\ r.op = "add"
                           /\ r.address = e
                           /\ r.secret = p
                           /\ r.calls = <<"auth.getUser">>
       /\ \A r \in inflight :
             r.op = "add" =>
                /\ handleAddGoogleEmailGetUser(r) => UNCHANGED <<googleEmails, dbGoogle>>
                /\ \A out \in InsertOutcomes :
                      handleAddGoogleEmailRemote(r, out) =>
                         /\ googleEmails' = googleEmails
                         /\ dbGoogle' # dbGoogle => out = "ok"
                /\ handleAddGoogleEmailFinish(r) =>
                      /\ lastCalls' = <<"auth.getUser", "google_smtp_emails.insert">>
                      /\ dbGoogle' = dbGoogle
                      /\ IF r.result = "ok"
                         THEN AppendedLast(googleEmails', r)
                         ELSE googleEmails' = googleEmails
                      /\ r.result = "23505" =>
                            emailError' = AlreadyRegistered /\ lastAlert' = ""
                      /\ r.result = "error" =>
                            lastAlert' = AddFailed /\ emailError' = emailError]_vars

\* C22 witness: the remote store refused an address that the cache did not hold;
\* the add has resumed, shows "already registered" and the cache still lacks it.
C22_Witness ==
    /\ emailError = AlreadyRegistered
    /\ lastAlert = ""
    /\ inflight = {}
    /\ \E k \in DOMAIN dbGoogle :
          \A j \in DOMAIN googleEmails : googleEmails[j].address # dbGoogle[k].address

TestSent == "Test email sent successfully!"

\* The step changes nothing of the credentials but the testing flag of the entries
\* with that address, which becomes flag, and writes nothing to the remote store.
OnlyFlagOf(address, flag) ==
    /\ dbGoogle' = dbGoogle
    /\ \A q \in inflight' \ inflight : q.calls = <<>>
    /\ DOMAIN googleEmails' = DOMAIN googleEmails
    /\ \A j \in DOMAIN googleEmails :
          /\ googleEmails'[j].address = googleEmails[j].address
          /\ googleEmails'[j].appPassword = googleEmails[j].appPassword
          /\ googleEmails'[j].testing =
                IF googleEmails[j].address = address THEN flag
                ELSE googleEmails[j].testing

\* C24: the start of a test sets, and its completion clears, the testing flag of
\* the credential with the tested address; neither step changes the set of
\* credentials, an address, a secret or another credential's flag, and neither
\* writes to the remote store.
C24_TestOnlyTogglesFlag ==
    [][/\ \A k \in DOMAIN googleEmails :
             handleTestEmailStart(k) => OnlyFlagOf(googleEmails[k].address, TRUE)
       /\ \A r \in inflight :
             handleTestEmailFinish(r) =>
                /\ OnlyFlagOf(r.address, FALSE)
                /\ lastAlert' = TestSent
                /\ lastCalls' = r.calls]_vars

\* C24 witness: a test has completed while the test of another credential is
\* still running: that one's flag is set, the completed one's is cleared.
C24_Witness ==
    /\ lastAlert = TestSent
    /\ \E r \in inflight :
          /\ r.op = "test"
          /\ \E j, k \in DOMAIN googleEmails :
                /\ googleEmails[j].address = r.address
                /\ googleEmails[j].testing
                /\ ~googleEmails[k].testing

\* The place of a remote call in the order of one save; the user lookups are not
\* counted, the second of them belongs to the list refresh.
SavePlace(call) ==
    CASE call \in {"campaigns.insert", "campaigns.update"} -> 1
      [] call = "campaign_templates.delete" -> 2
      [] call = "campaign_emails.delete" -> 3
      [] call = "campaign_templates.insert" -> 4
      [] call = "campaign_emails.insert" -> 5
      [] call = "campaigns.select" -> 6
      [] OTHER -> 0

RemoteCalls(calls) == SelectSeq(calls, LAMBDA call : call # "auth.getUser")

\* A call of the save r is issued in this step: the call before it has been
\* answered, it is not a failed row write or association insert that was answered,
\* and the new call has its place after every call issued before.
SaveIssuesInOrder(r) ==
    \A q \in inflight' :
        (q.n = r.n /\ q.calls # r.calls) =>
            LET call == q.calls[Len(q.calls)]
                remote == RemoteCalls(r.calls)
            IN /\ q.calls = Append(r.calls, call)
               /\ r.result # "" \/ r.pc \in {"getUser", "fetchUser"}
               /\ r.result = "error" => r.pc \in {"delT", "delE"}
               /\ call # "auth.getUser" =>
                     /\ SavePlace(call) > 0
                     /\ \A k \in DOMAIN remote : SavePlace(remote[k]) < SavePlace(call)
                     /\ remote = <<>> => SavePlace(call) = 1

\* The save r returns in this step: what it has issued.
SaveHasIssued(r) ==
    Returns(r) =>
        LET remote == RemoteCalls(r.calls)
            issued == {remote[k] : k \in DOMAIN remote}
        IN /\ lastCalls' = r.calls
           /\ "row" \in r.failed => Len(remote) = 1
           /\ (remote # <<>> /\ "row" \notin r.failed) =>
                 {"campaign_templates.delete", "campaign_emails.delete"}
                    \subseteq issued
           /\ "insT" \in r.failed => remote[Len(remote)] = "campaign_templates.insert"
           /\ "insE" \in r.failed => remote[Len(remote)] = "campaign_emails.insert"
           /\ "campaign_templates.insert" \in issued <=>
                 (remote # <<>> /\ "row" \notin r.failed /\ r.snap.templates # <<>>)
           /\ "campaigns.select" \in issued =>
                 /\ r.failed \cap {"row", "insT", "insE"} = {}
                 /\ currentCampaign' = Null

\* C27: the remote calls of one save are issued one after another, each after
\* the one before it was answered, in the order campaign row write, delete of
\* template associations, delete of sender-email associations, insert of template
\* associations, insert of sender-email associations, list refresh, each at most
\* once; the row write comes first, nothing follows a failed row write or a failed
\* association insert, and the refresh follows only a save whose checked calls
\* all succeeded.
C27_SaveCallsInOrder ==
    [][\A r \in inflight :
          r.op = "save" => SaveIssuesInOrder(r) /\ SaveHasIssued(r)]_vars

\* C27 witness: a save of a new draft with a template and a sender email has
\* issued all of its calls.
C27_Witness ==
    lastCalls = <<"auth.getUser", "campaigns.insert", "campaign_templates.delete",
                  "campaign_emails.delete", "campaign_templates.insert",
                  "campaign_emails.insert", "auth.getUser", "campaigns.select">>

\* A credential removal takes the removed address out of the open draft too.
RemovalPrunesDraft ==
    [][\A r \in inflight :
          (/\ r.op = "remove"
           /\ r.result = "ok"
           /\ handleRemoveGoogleEmailFinish(r)
           /\ currentCampaign # Null) =>
             \A j \in DOMAIN currentCampaign'.emails :
                currentCampaign'.emails[j].address # r.address]_vars

\* Every campaign_emails row a save writes is for an address of the Credential
\* Store.
SaveWritesKnownSenders ==
    [][\A r \in inflight, ok \in BOOLEAN :
          handleSaveCampaignRemote(r, ok) =>
             \A k \in DOMAIN dbEmails' :
                dbEmails'[k] \notin Range(dbEmails) =>
                   dbEmails'[k].email_address \in AvailableAddresses]_vars

\* C28: when a credential is removed from the Credential Store while a draft is
\* open, the draft's sender list no longer contains that address, and a later save
\* never writes a campaign_emails row for an address absent from the store.
C28_DraftReconciled == RemovalPrunesDraft /\ SaveWritesKnownSenders

\* C29: every campaign of the list that is active satisfies validateCampaign, also
\* after a credential removal has pruned sender emails and after a reload of the
\* list from the remote store.
C29_ActiveCampaignsValid ==
    \A i \in DOMAIN campaigns :
        campaigns[i].isActive => validateCampaign(campaigns[i]).valid

\* C30: the editor is never in Editing on a campaign whose entry in the list or
\* whose remote row is active, however a click that opens a campaign interleaves
\* with a toggle whose remote update is pending.
C30_NoActiveCampaignInEditor ==
    currentCampaign # Null =>
        /\ \A i \in DOMAIN campaigns :
              campaigns[i].id = currentCampaign.id => ~campaigns[i].isActive
        /\ \A row \in dbCampaigns :
              row.id = currentCampaign.id => ~row.is_active

\* C31: every campaign row a save inserts or updates has is_active false, and
\* right after a save whose calls all succeeded the saved campaign is inactive in
\* the remote store and in the refreshed list, whatever it was before.
C31_SaveDeactivates ==
    [][\A r \in inflight :
          /\ \A ok \in BOOLEAN :
                handleSaveCampaignRemote(r, ok) =>
                    \A row \in dbCampaigns' \ dbCampaigns : ~row.is_active
          /\ SaveSucceeds(r) =>
                /\ \E row \in dbCampaigns' : row.id = r.campaignId
                /\ \A row \in dbCampaigns' : row.id = r.campaignId => ~row.is_active
                /\ \E i \in DOMAIN campaigns' : campaigns'[i].id = r.campaignId
                /\ \A i \in DOMAIN campaigns' :
                      campaigns'[i].id = r.campaignId => ~campaigns'[i].isActive]_vars

\* C31 witness: the row write of a save has been answered for a campaign that a
\* toggle activated while it was open as draft: the list, not refreshed yet, shows
\* the campaign active and its remote row is inactive.
C31_Witness ==
    \E r \in inflight :
       /\ r.op = "save"
       /\ r.pc = "row"
       /\ r.result = "ok"
       /\ r.calls[2] = "campaigns.update"
       /\ \E row \in dbCampaigns : row.id = r.campaignId /\ ~row.is_active
       /\ \E i \in DOMAIN campaigns :
             campaigns[i].id = r.campaignId /\ campaigns[i].isActive

\* Another save of the same new draft, not returned yet, has had its campaign row
\* inserted.  Two new drafts are equal only when they stem from one create, which
\* stamps the draft with the clock.
RowInsertedByOtherSave(r) ==
    \E q \in inflight :
        /\ q.n # r.n
        /\ q.op = "save"
        /\ q.snap = r.snap
        /\ q.campaignId # EmptyId

\* C32: a draft obtained from one create produces at most one campaign row: the
\* row write of a save of a new draft inserts no row when another save of that
\* draft, started before this one wrote and not returned yet, has inserted the
\* row.  (The save after a save that failed partway is the second half of C13.)
C32_OneRowPerDraft ==
    [][\A r \in inflight :
          (/\ r.op = "save"
           /\ r.pc = "row"
           /\ r.snap.id = EmptyId
           /\ RowInsertedByOtherSave(r)
           /\ handleSaveCampaignRemote(r, TRUE)) =>
             Cardinality(dbCampaigns') = Cardinality(dbCampaigns)]_vars

\* C33: once the list is loaded and no call is pending, the cached Google
\* credential list holds exactly the addresses of the user's rows in the remote
\* store, however the adds and removals, all succeeding, interleaved.
C33_CacheMatchesStore ==
    (~gIsLoading /\ inflight = {}) =>
        {googleEmails[k].address : k \in DOMAIN googleEmails}
           = {dbGoogle[k].address : k \in DOMAIN dbGoogle}

\* A test of that address is suspended at its timer.
TestPending(address) == \E r \in inflight : r.op = "test" /\ r.address = address

\* C34: the testing flag is transient: a credential whose test is not pending has
\* its flag cleared, however adds and removals interleave with the tests.
C34_FlagClearedWhenNoTestPending ==
    \A k \in DOMAIN googleEmails :
        googleEmails[k].testing => TestPending(googleEmails[k].address)

\* The suspended invocation numbered n is a test.
TestRunning(n) == \E r \in inflight : r.n = n /\ r.op = "test"

\* Every test that starts completes (under SpecTestFair).
TestCompletes == \A n \in 1..MaxInflight : TestRunning(n) ~> ~TestRunning(n)

====
